---- MODULE Spec2Model ----
(***************************************************************************)
(* Model of the serial plotter's ingestion pipeline (vinwml/SerialMonitor). *)
(*                                                                         *)
(* The repository holds several evolutionary copies of one program.  The   *)
(* model keeps three of them side by side, selected by the variable        *)
(* `variant`:                                                              *)
(*   "fast"        src/code/pySerialPlot_fast.py                           *)
(*   "downsampled" src/code/pySerialPlot_downsampled.py                    *)
(*   "v2"          src/code/pySerialPlot2.py                               *)
(*                                                                         *)
(* Representation choices                                                  *)
(*  - a byte / character is a one-character string; a bytes object or a    *)
(*    str is a sequence of them.  "xFF" stands for a byte that is not      *)
(*    valid UTF-8 (dropped by decode(errors='ignore')).                    *)
(*  - a Python float is the exact decimal it denotes, kept as a record     *)
(*    [n, k] meaning n / 10^k, normalised so that k = 0 or n % 10 # 0.     *)
(*    Decimal parsing and division by 1000.0 / 1e6 are correctly rounded   *)
(*    in IEEE arithmetic, so equal decimals are equal floats.              *)
(*  - the x deque holds seconds; the model keeps seconds * 1e6 as an       *)
(*    integer (micro-seconds), which preserves order and differences.      *)
(*  - inf / nan spellings are outside the modelled alphabet.               *)
(***************************************************************************)
EXTENDS Integers, Sequences, FiniteSets, TLC

None == "None"

\* an attribute that is None is the empty tuple, one that holds v is <<v>>
Unset == <<>>

(***************************************************************************)
(* State                                                                   *)
(***************************************************************************)
VARIABLES
  variant,            \* which copy of the program runs
  serial,             \* self.serial is not None
  wire,               \* bytes sent by the device, not yet read
  rx_buf,             \* self._rx_buf
  x, y,               \* self.x / self.y (x_data / y_data in v2)
  t0_us,              \* self.t0_us
  buffer_seconds,     \* self.buffer_seconds
  max_points_cap,     \* self.max_points_cap
  app50,              \* pySerialPlot50.py: standby_mode, standby_started,
                      \* trigger_start, trigger_stop, csv_writer is not
                      \* None, start_button.isChecked()
  field,              \* field_selector.currentText()
  save_raw, save_proc,\* the "save" checkboxes
  logging_raw, raw_file, raw_rows,
  logging_proc, proc_file, proc_rows,
  monitor_new_lines,  \* self.monitor_new_lines (monitor_lines in v2)
  label_status,
  pause, ds, maxp,    \* pause_plot_checkbox, ds_spin, maxpoints_spin
  curve,              \* what curve.setData last received
  mono,               \* last reading of time.monotonic(), micro-seconds
  starts,             \* Start clicks so far
  received,           \* history: bytes read in this session
  emitted,            \* history: lines framed in this session
  accepted,           \* history: samples appended in this session
  pline, presult,     \* parser harness: line under test and its result
  closed,             \* closeEvent was accepted: the window is gone
  twin                \* a second run fed the same bytes, with what sets the
                      \* two runs apart (Unset: not kept)

vars == << variant, serial, wire, rx_buf, x, y, t0_us, buffer_seconds,
           max_points_cap, app50, field,
           save_raw, save_proc, logging_raw, raw_file, raw_rows,
           logging_proc, proc_file, proc_rows, monitor_new_lines,
           label_status, pause, ds, maxp, curve, mono, starts,
           received, emitted, accepted, pline, presult, closed, twin >>

(***************************************************************************)
(* Characters and Python str / bytes primitives                            *)
(***************************************************************************)
NL == "\n"
CR == "\r"
BadByte == "xFF"

Digits == {"0", "1", "2", "3", "4", "5", "6", "7", "8", "9"}

DigitVal(c) ==
  CASE c = "0" -> 0 [] c = "1" -> 1 [] c = "2" -> 2 [] c = "3" -> 3
    [] c = "4" -> 4 [] c = "5" -> 5 [] c = "6" -> 6 [] c = "7" -> 7
    [] c = "8" -> 8 [] c = "9" -> 9

\* str.isspace for the characters of the modelled alphabet
IsSpace(c) == c \in {" ", NL, CR, "\t"}

\* str.lower, character-wise
LowerChar(c) ==
  CASE c = "T" -> "t" [] c = "U" -> "u" [] c = "S" -> "s" [] c = "I" -> "i"
    [] c = "M" -> "m" [] c = "E" -> "e" [] OTHER -> c

lower(s) == [i \in 1..Len(s) |-> LowerChar(s[i])]

RECURSIVE lstrip(_)
lstrip(s) == IF s # <<>> /\ IsSpace(Head(s)) THEN lstrip(Tail(s)) ELSE s

RECURSIVE rstrip(_)
rstrip(s) ==
  IF s # <<>> /\ IsSpace(s[Len(s)]) THEN rstrip(SubSeq(s, 1, Len(s) - 1)) ELSE s

\* str.strip()
strip(s) == rstrip(lstrip(s))

\* str.rstrip('\r')
RECURSIVE rstrip_cr(_)
rstrip_cr(s) ==
  IF s # <<>> /\ s[Len(s)] = CR THEN rstrip_cr(SubSeq(s, 1, Len(s) - 1)) ELSE s

\* str.startswith(p)
startswith(s, p) == Len(s) >= Len(p) /\ SubSeq(s, 1, Len(p)) = p

\* bytearray.find / str.find of one character: 0-based index, -1 if absent
RECURSIVE FindFrom(_, _, _)
FindFrom(s, c, i) ==
  IF i > Len(s) THEN -1
  ELSE IF s[i] = c THEN i - 1
  ELSE FindFrom(s, c, i + 1)

find(s, c) == FindFrom(s, c, 1)

\* str.split(','): the fields between the separators, always at least one
RECURSIVE split(_, _)
split(s, sep) ==
  LET idx == find(s, sep) IN
    IF idx < 0 THEN <<s>>
    ELSE <<SubSeq(s, 1, idx)>> \o split(SubSeq(s, idx + 2, Len(s)), sep)

\* bytes.decode(errors='ignore'): undecodable bytes are dropped
RECURSIVE decode(_)
decode(b) ==
  IF b = <<>> THEN <<>>
  ELSE IF Head(b) = BadByte THEN decode(Tail(b))
  ELSE <<Head(b)>> \o decode(Tail(b))

(***************************************************************************)
(* Python int() and float() on str                                         *)
(***************************************************************************)
\* a run of decimal digits with single underscores between digits
ValidDigitRun(s) ==
  /\ s # <<>>
  /\ \A i \in 1..Len(s) : s[i] \in Digits \cup {"_"}
  /\ s[1] # "_"
  /\ s[Len(s)] # "_"
  /\ \A i \in 1..(Len(s) - 1) : ~(s[i] = "_" /\ s[i + 1] = "_")

RECURSIVE DigitsValue(_, _)
DigitsValue(s, acc) ==
  IF s = <<>> THEN acc
  ELSE IF Head(s) = "_" THEN DigitsValue(Tail(s), acc)
  ELSE DigitsValue(Tail(s), 10 * acc + DigitVal(Head(s)))

RECURSIVE DigitCount(_)
DigitCount(s) ==
  IF s = <<>> THEN 0
  ELSE (IF Head(s) = "_" THEN 0 ELSE 1) + DigitCount(Tail(s))

HasSign(s) == s # <<>> /\ Head(s) \in {"+", "-"}
SignOf(s) == IF s # <<>> /\ Head(s) = "-" THEN -1 ELSE 1
Unsigned(s) == IF HasSign(s) THEN Tail(s) ELSE s

Fail == [ok |-> FALSE]

\* int(s): [ok |-> TRUE, v |-> value] or Fail (ValueError)
ParseInt(s) ==
  IF ValidDigitRun(Unsigned(strip(s)))
    THEN [ok |-> TRUE,
          v |-> SignOf(strip(s)) * DigitsValue(Unsigned(strip(s)), 0)]
    ELSE Fail

\* the decimal n / 10^k in normal form
RECURSIVE Norm(_, _)
Norm(n, k) ==
  IF k > 0 /\ n % 10 = 0 THEN Norm(n \div 10, k - 1) ELSE [n |-> n, k |-> k]

\* position of the exponent marker of a float literal
FindExp(s) ==
  IF find(s, "e") < 0 THEN find(s, "E")
  ELSE IF find(s, "E") < 0 THEN find(s, "e")
  ELSE IF find(s, "e") < find(s, "E") THEN find(s, "e") ELSE find(s, "E")

\* the part of s before position i (all of s if i < 0) and the part after it
Before(s, i) == IF i < 0 THEN s ELSE SubSeq(s, 1, i)
After(s, i) == IF i < 0 THEN <<>> ELSE SubSeq(s, i + 2, Len(s))

\* the integer and fraction digits of a mantissa are well formed
MantissaOk(ip, fp, dotted) ==
  IF ~dotted THEN ValidDigitRun(ip)
  ELSE /\ ip = <<>> \/ ValidDigitRun(ip)
       /\ fp = <<>> \/ ValidDigitRun(fp)
       /\ ~(ip = <<>> /\ fp = <<>>)

\* n * 10^(-k) as a decimal
Scaled(n, k) == IF k < 0 THEN Norm(n * (10 ^ (0 - k)), 0) ELSE Norm(n, k)

FloatOfDigits(sign, ip, fp, dotted, expo, marked) ==
  IF MantissaOk(ip, fp, dotted)
       /\ (~marked \/ ValidDigitRun(Unsigned(expo)))
    THEN [ok |-> TRUE,
          v |-> Scaled(sign * DigitsValue(ip \o fp, 0),
                       DigitCount(fp)
                         - (IF marked
                              THEN SignOf(expo) * DigitsValue(Unsigned(expo), 0)
                              ELSE 0))]
    ELSE Fail

FloatOfMantissa(sign, mant, di, expo, marked) ==
  FloatOfDigits(sign, Before(mant, di), After(mant, di), di >= 0, expo, marked)

FloatOfBody(sign, body, ei) ==
  FloatOfMantissa(sign, Before(body, ei), find(Before(body, ei), "."),
                  After(body, ei), ei >= 0)

\* float(s): [ok |-> TRUE, v |-> [n, k]] or Fail (ValueError)
ParseFloat(s) ==
  FloatOfBody(SignOf(strip(s)), Unsigned(strip(s)), FindExp(Unsigned(strip(s))))

\* int(f) for a float f: truncation toward zero
TruncToInt(r) ==
  IF r.n >= 0 THEN r.n \div (10 ^ r.k) ELSE 0 - ((0 - r.n) \div (10 ^ r.k))

\* an int used where a float is expected
IntAsReal(i) == [n |-> i, k |-> 0]

(***************************************************************************)
(* Sensor conversion constants                                             *)
(***************************************************************************)
FS_PSI == 5
VS_VOLTS == 5
IntLikeThreshold == 20000

\* mutant of PsiOf: the linear map without the two clamps
PsiUnclamped(v) ==
  Norm((125 * FS_PSI * (10 * v.n - VS_VOLTS * (10 ^ v.k))) \div VS_VOLTS,
       v.k + 3)

\* psi = FS_PSI * ((v_sensor / VS_VOLTS) - 0.10) / 0.80, clamped to 0..FS_PSI
PsiOf(v) ==
  IF 10 * v.n < VS_VOLTS * (10 ^ v.k) THEN IntAsReal(0)        \* psi < 0.0
  ELSE IF 10 * v.n > 9 * VS_VOLTS * (10 ^ v.k)
    THEN IntAsReal(FS_PSI)                                     \* psi > FS_PSI
  ELSE Norm((125 * FS_PSI * (10 * v.n - VS_VOLTS * (10 ^ v.k))) \div VS_VOLTS,
            v.k + 3)

(***************************************************************************)
(* parse_line, one definition per variant                                  *)
(***************************************************************************)
HeaderPrefixes == { <<"t", "_", "u", "s">>, <<"t", ",">>,
                    <<"t", "i", "m", "e", "_", "u", "s">> }

IsHeader(s) == \E p \in HeaderPrefixes : startswith(lower(s), p)

ParsedNone == [kind |-> None]
ParsedVal(r) == [kind |-> "val", val |-> r]

AbsInt(i) == IF i < 0 THEN 0 - i ELSE i

\* mutant of IsIntlikeBig: the threshold itself counts as big
IsIntlikeBigInclusive(s) ==
  IF find(s, ".") >= 0 \/ find(s, "e") >= 0 \/ find(s, "E") >= 0 THEN FALSE
  ELSE ParseInt(s).ok /\ AbsInt(ParseInt(s).v) >= IntLikeThreshold

\* _is_intlike_big(s) of pySerialPlot_fast.py
IsIntlikeBig(s) ==
  IF find(s, ".") >= 0 \/ find(s, "e") >= 0 \/ find(s, "E") >= 0 THEN FALSE
  ELSE ParseInt(s).ok /\ AbsInt(ParseInt(s).v) > IntLikeThreshold

ScalarOf(r) == IF r.ok THEN ParsedVal(r.v) ELSE ParsedNone

\* the "Fallback: single numeric line" tail shared by the three variants
FallbackScalar(s) == ScalarOf(ParseFloat(s))

\* avg_mcounts / 1000.0
MilliToUnit(i) == Norm(i, 3)

\* mutant of MicroToUnit: micro-volts divided by 1e3
MicroToUnitMilli(i) == Norm(i, 3)

\* v_adc_uV / 1e6, v_sensor_uV / 1e6
MicroToUnit(i) == Norm(i, 6)

\* mutant of ScaledRecord: the raw field is not validated
ScaledRecordUnchecked(t, r, a, va, vs) ==
  IF t.ok /\ a.ok /\ va.ok /\ vs.ok
    THEN [kind |-> "struct", enc |-> "int", t_us |-> t.v,
          raw |-> IF r.ok THEN r.v ELSE 0,
          avg |-> Norm(a.v, 3), v_adc |-> Norm(va.v, 6),
          v_sensor |-> Norm(vs.v, 6)]
    ELSE ParsedNone

\* the try block of the int-only format, given the five int() results
ScaledRecord(t, r, a, va, vs) ==
  IF t.ok /\ r.ok /\ a.ok /\ va.ok /\ vs.ok
    THEN [kind |-> "struct", enc |-> "int", t_us |-> t.v, raw |-> r.v,
          avg |-> MilliToUnit(a.v), v_adc |-> MicroToUnit(va.v),
          v_sensor |-> MicroToUnit(vs.v)]
    ELSE ParsedNone

\* NEW int-only format: t_us, raw, avg_mcounts, v_adc_uV, v_sensor_uV
ScaledIntFields(parts) ==
  ScaledRecord(ParseInt(parts[1]), ParseInt(parts[2]), ParseInt(parts[3]),
               ParseInt(parts[4]), ParseInt(parts[5]))

\* the try block of the float format, given the int() and float() results
FloatRecord(t, r, a, va, vs) ==
  IF t.ok /\ r.ok /\ a.ok /\ va.ok /\ vs.ok
    THEN [kind |-> "struct", enc |-> "float", t_us |-> t.v,
          raw |-> TruncToInt(r.v), avg |-> a.v, v_adc |-> va.v,
          v_sensor |-> vs.v]
    ELSE ParsedNone

\* OLD float format: t_us, raw, avg, v_adc, v_sensor
FloatFields(parts) ==
  FloatRecord(ParseInt(parts[1]), ParseFloat(parts[2]), ParseFloat(parts[3]),
              ParseFloat(parts[4]), ParseFloat(parts[5]))

WithPsi(p) ==
  IF p.kind = "struct"
    THEN [kind |-> "struct", enc |-> p.enc, t_us |-> p.t_us, raw |-> p.raw,
          avg |-> p.avg, v_adc |-> p.v_adc, v_sensor |-> p.v_sensor,
          psi |-> PsiOf(p.v_sensor)]
    ELSE p

\* mutant of FieldsFast: once the session has a time origin the
\* scaled-integer reading is kept for every line
FieldsFastSticky(s, parts) ==
  IF Len(parts) >= 5
    THEN IF t0_us # Unset \/ (IsIntlikeBig(parts[4]) /\ IsIntlikeBig(parts[5]))
           THEN WithPsi(ScaledIntFields(parts))
           ELSE WithPsi(FloatFields(parts))
    ELSE FallbackScalar(s)

\* mutant of FieldsFast: one big integer among the two fields is enough for
\* the int-only format
FieldsFastEither(s, parts) ==
  IF Len(parts) >= 5
    THEN IF IsIntlikeBig(parts[4]) \/ IsIntlikeBig(parts[5])
           THEN WithPsi(ScaledIntFields(parts))
           ELSE WithPsi(FloatFields(parts))
    ELSE FallbackScalar(s)

\* parse_line of pySerialPlot_fast.py from parts = s.split(',') on
FieldsFast(s, parts) ==
  IF Len(parts) >= 5
    THEN IF IsIntlikeBig(parts[4]) /\ IsIntlikeBig(parts[5])
           THEN WithPsi(ScaledIntFields(parts))
           ELSE WithPsi(FloatFields(parts))
    ELSE FallbackScalar(s)

\* parse_line of pySerialPlot_downsampled.py from parts = s.split(',') on
FieldsDownsampled(s, parts) ==
  IF Len(parts) >= 5 THEN ScaledIntFields(parts) ELSE FallbackScalar(s)

\* mutant of StructOrFallback: the fallback reads the text before the first
\* comma
StructOrFirstField(p, s) ==
  IF p.kind = "struct" THEN p ELSE FallbackScalar(split(s, ",")[1])

\* except Exception: pass, then the fallback on the whole line
StructOrFallback(p, s) == IF p.kind = "struct" THEN p ELSE FallbackScalar(s)

\* parse_line of pySerialPlot2.py from parts = s.split(',') on
FieldsV2(s, parts) ==
  IF Len(parts) >= 5 THEN StructOrFallback(FloatFields(parts), s)
  ELSE FallbackScalar(s)

\* parse_line after s = s.strip(), for variant v
ParseStripped(v, s) ==
  IF s = <<>> THEN ParsedNone
  ELSE IF IsHeader(s) THEN ParsedNone
  ELSE CASE v = "fast" -> FieldsFast(s, split(s, ","))
         [] v = "downsampled" -> FieldsDownsampled(s, split(s, ","))
         [] v = "v2" -> FieldsV2(s, split(s, ","))

parse_line(v, line) == ParseStripped(v, strip(line))

(***************************************************************************)
(* Bounds of the model                                                     *)
(***************************************************************************)
\* lines the device sends in one behaviour
MaxLines == 3
\* stands for max_points_cap = 2_000_000, scaled so that the cap is reached
MaxPointsCap == 2
\* lines of a constant-rate feed, and max_points_cap scaled to lie above the
\* steady length of the feeds that fit the window
FeedLines == 32
\* max_lines_per_tick scaled, for the specification of the per-cycle line cap
CycleCap == 2
FeedCap == 30
\* Start clicks in one behaviour
MaxStarts == 2
\* largest reading of the host monotonic clock, in micro-seconds
MaxClock == 12000000
MaxSnapshot == 450

(***************************************************************************)
(* Input corpus of the session specification                               *)
(***************************************************************************)
\* a structured line every variant accepts (scaled-integer shape)
StructTail == <<",", "5", ",", "7", ",", "3", "0", "0", "0", "0", ",", "4", "0", "0", "0", "0">>

LineInt0 == <<"0">> \o StructTail
LineInt9 == <<"9", "0", "0", "0", "0", "0", "0">> \o StructTail
LineScalar == <<"1", ".", "5">>

DeviceLines ==
  { LineInt0 \o <<NL>>, LineInt9 \o <<CR, NL>>, LineScalar \o <<NL>> }

\* every concatenation of at most k device lines
RECURSIVE Streams(_)
Streams(k) ==
  IF k = 0 THEN { <<>> }
  ELSE LET shorter == Streams(k - 1)
       IN shorter \cup { s \o l : s \in shorter, l \in DeviceLines }

Variants == {"fast", "downsampled", "v2"}
FramedVariants == {"fast", "downsampled"}

WindowChoices == {5, 10}
FieldsOf(v) ==
  IF v = "fast" THEN {"psi", "v_sensor", "v_adc", "avg", "raw"}
  ELSE {"v_sensor", "v_adc", "avg", "raw"}
DefaultField(v) == IF v = "fast" THEN "psi" ELSE "v_sensor"

ProcHeader == "iso_time,t_us,raw,avg,v_adc,v_sensor,psi"
CsvHeader == "iso_time,t_us,raw,avg,v_adc,v_sensor"
Csv50Header == "Timestamp,Value"

(***************************************************************************)
(* Time-series buffer                                                      *)
(***************************************************************************)
MicrosPerSecond == 1000000

DropHead(s, d) == SubSeq(s, d + 1, Len(s))

(* A time in the buffer is the double n / 1e6 of an integer n of            *)
(* microseconds; the buffer keeps n.  Where the code computes with the      *)
(* double, the double is made from n: sign, integer part and FracBits       *)
(* binary fraction digits, of which the leading 53 significant digits are   *)
(* kept, rounded to nearest, ties to even.                                  *)
FracBits == 76

\* the first k binary fraction digits of rem / 1e6
RECURSIVE FracOf(_, _)
FracOf(rem, k) ==
  IF k = 0 THEN <<>>
  ELSE << (2 * rem) \div MicrosPerSecond >>
         \o FracOf((2 * rem) % MicrosPerSecond, k - 1)

RECURSIVE ILog2(_)
ILog2(i) == IF i < 2 THEN 0 ELSE 1 + ILog2(i \div 2)

\* index of the first 1 from index j on, FracBits + 1 if there is none
RECURSIVE FirstOne(_, _)
FirstOne(f, j) ==
  IF j > FracBits THEN j ELSE IF f[j] = 1 THEN j ELSE FirstOne(f, j + 1)

\* how many fraction digits the 53 significant digits reach
KeepBits(int, f) ==
  IF int > 0 THEN 52 - ILog2(int)
  ELSE FirstOne(f, 1) + 52

\* round to nearest, ties to even: the digit behind the last kept one is 1
\* and something follows it or the last kept digit is odd
RoundsUp(f, sticky, c) ==
  /\ f[c + 1] = 1
  /\ \/ sticky
     \/ \E j \in (c + 2)..FracBits : f[j] = 1
     \/ f[c] = 1

\* last index up to c holding the digit d, 0 if there is none
LastDigit(f, c, d) ==
  IF \E j \in 1..c : f[j] = d
    THEN CHOOSE j \in 1..c : f[j] = d /\ \A i \in (j + 1)..c : f[i] # d
    ELSE 0

\* the kept digits plus one unit in the last place, the carry stopping at z
Bumped(neg, int, f, c, z) ==
  [neg |-> neg, int |-> IF z = 0 THEN int + 1 ELSE int,
   frac |-> [j \in 1..FracBits |->
               IF j < z THEN f[j] ELSE IF j = z THEN 1 ELSE 0]]

RoundAt(neg, int, f, sticky, c) ==
  IF c >= FracBits THEN [neg |-> neg, int |-> int, frac |-> f]
  ELSE IF RoundsUp(f, sticky, c) THEN Bumped(neg, int, f, c, LastDigit(f, c, 0))
  ELSE [neg |-> neg, int |-> int,
        frac |-> [j \in 1..FracBits |-> IF j <= c THEN f[j] ELSE 0]]

Rounded(neg, int, f, sticky) == RoundAt(neg, int, f, sticky, KeepBits(int, f))

\* n / 1e6; the quotient is a finite binary fraction only if 5^6 divides n
FloatOfMicros(n) ==
  Rounded(n < 0, AbsInt(n) \div MicrosPerSecond,
          FracOf(AbsInt(n) % MicrosPerSecond, FracBits),
          AbsInt(n) % 15625 # 0)

IsZero(a) == a.int = 0 /\ \A j \in 1..FracBits : a.frac[j] = 0

\* 1 - 0.f for a fraction that is not 0
OneMinus(f, l) ==
  [j \in 1..FracBits |-> IF j < l THEN 1 - f[j] ELSE IF j = l THEN 1 ELSE 0]

\* a - float(w) for an integer w > 0
FloatMinusInt(a, w) ==
  IF a.neg /\ ~IsZero(a) THEN Rounded(TRUE, a.int + w, a.frac, FALSE)
  ELSE IF a.int >= w THEN Rounded(FALSE, a.int - w, a.frac, FALSE)
  ELSE IF \A j \in 1..FracBits : a.frac[j] = 0
    THEN Rounded(TRUE, w - a.int, a.frac, FALSE)
  ELSE Rounded(TRUE, w - a.int - 1,
               OneMinus(a.frac, LastDigit(a.frac, FracBits, 1)), FALSE)

\* |a| < |b|
MagnitudeLess(a, b) ==
  \/ a.int < b.int
  \/ /\ a.int = b.int
     /\ \E j \in 1..FracBits :
          /\ a.frac[j] < b.frac[j]
          /\ \A i \in 1..(j - 1) : a.frac[i] = b.frac[i]

\* a < b
FloatLess(a, b) ==
  IF IsZero(a) THEN ~IsZero(b) /\ ~b.neg
  ELSE IF IsZero(b) THEN a.neg
  ELSE IF a.neg # b.neg THEN a.neg
  ELSE IF a.neg THEN MagnitudeLess(b, a)
  ELSE MagnitudeLess(a, b)

\* mutant of Older: a time exactly w seconds before t counts as older
OlderOrEqual(n, t_min) == n + t_min.w * MicrosPerSecond <= t_min.t

\* n / 1e6 < t_min.  Rounding moves a time by far less than half a
\* microsecond, so two times that are not exactly w seconds apart compare as
\* their integers do; the digits decide for a time exactly w seconds before t
Older(n, t_min) ==
  IF n + t_min.w * MicrosPerSecond # t_min.t
    THEN n + t_min.w * MicrosPerSecond < t_min.t
    ELSE FloatLess(FloatOfMicros(n),
                   FloatMinusInt(FloatOfMicros(t_min.t), t_min.w))

\* while self.x and self.x[0] < t_min: popleft
RECURSIVE WindowDrop(_, _)
WindowDrop(xs, t_min) ==
  IF xs # <<>> /\ Older(Head(xs), t_min)
    THEN 1 + WindowDrop(Tail(xs), t_min)
    ELSE 0

\* mutant of CapDrop: one point more than the excess is dropped
CapDropOneMore(n, cap) == IF n > cap THEN n - cap + 1 ELSE 0

\* if len(self.x) > self.max_points_cap: drop = len - cap
CapDrop(n, cap) == IF n > cap THEN n - cap ELSE 0

\* t_min = t_sec - float(self.buffer_seconds), kept as its two operands
TMin(t_sec, w) == [t |-> t_sec, w |-> w]

\* mutant of Dropped: the points leave at the tail
DroppedAtTail(st, d) ==
  [st EXCEPT !.x = SubSeq(@, 1, Len(@) - d), !.y = SubSeq(@, 1, Len(@) - d)]

\* d points leave both sequences at the head
Dropped(st, d) == [st EXCEPT !.x = DropHead(@, d), !.y = DropHead(@, d)]

\* the hard cap on both sequences
HardCap(st) == Dropped(st, CapDrop(Len(st.x), st.max_points_cap))

\* append, trim by time window, hard cap (deque variants)
AppendTrim(st, w, t_sec, y_val) ==
  HardCap(Dropped([st EXCEPT !.x = Append(@, t_sec), !.y = Append(@, y_val),
                             !.accepted = Append(@, <<t_sec, y_val>>)],
                  WindowDrop(Append(st.x, t_sec), TMin(t_sec, w))))

\* trim_by_time_window of v2: cut through the last element older than t_min
RECURSIVE LastOlder(_, _, _)
LastOlder(xs, t_min, i) ==
  IF i < 1 THEN 0
  ELSE IF Older(xs[i], t_min) THEN i
  ELSE LastOlder(xs, t_min, i - 1)

trim_by_time_window(st, w) ==
  IF st.x = <<>> THEN st
  ELSE HardCap(Dropped(st, LastOlder(st.x, TMin(st.x[Len(st.x)], w),
                                     Len(st.x))))

\* trim_buffers of v2: cap only
trim_buffers(st) == HardCap(st)

(***************************************************************************)
(* Per-line ingestion                                                      *)
(***************************************************************************)
SelectY(v, f, parsed) ==
  CASE f = "raw" -> IntAsReal(parsed.raw)
    [] f = "avg" -> parsed.avg
    [] f = "v_adc" -> parsed.v_adc
    [] f = "v_sensor" -> parsed.v_sensor
    [] f = "psi" /\ v = "fast" -> parsed.psi
    [] OTHER -> parsed.v_sensor

\* "{v:.df}": the decimal rounded to d places, half up in magnitude
RoundTo(r, d) ==
  IF r.k <= d THEN r
  ELSE Norm((IF r.n < 0 THEN -1 ELSE 1)
              * ((2 * AbsInt(r.n) + 10 ^ (r.k - d)) \div (2 * 10 ^ (r.k - d))),
            d)

ProcRow(parsed) ==
  [t_us |-> parsed.t_us, raw |-> parsed.raw, avg |-> RoundTo(parsed.avg, 3),
   v_adc |-> RoundTo(parsed.v_adc, 6), v_sensor |-> RoundTo(parsed.v_sensor, 6),
   psi |-> RoundTo(parsed.psi, 4)]

CsvRow(parsed) ==
  [t_us |-> parsed.t_us, raw |-> parsed.raw, avg |-> parsed.avg,
   v_adc |-> parsed.v_adc, v_sensor |-> parsed.v_sensor]

\* mutant of StructTime: every structured sample becomes the time origin
StructTimeReanchor(st, parsed) == [t0 |-> <<parsed.t_us>>, t_sec |-> 0]

\* the structured branch shared by the variants: anchor t0, compute t_sec
StructTime(st, parsed) ==
  IF st.t0_us = Unset
    THEN [t0 |-> <<parsed.t_us>>, t_sec |-> 0]
    ELSE [t0 |-> st.t0_us, t_sec |-> parsed.t_us - st.t0_us[1]]

\* the fallback branch of downsampled / v2: t0 and the reading t_sec is taken
\* from; the clock moves by tick between two readings
FallbackTime(st, tick) ==
  IF st.t0_us = Unset
    THEN [t0 |-> <<st.now>>, t_sec |-> tick, now |-> st.now + tick + tick]
    ELSE [t0 |-> st.t0_us, t_sec |-> st.now - st.t0_us[1],
          now |-> st.now + tick]

\* mutant of Consume: one byte too many is deleted
ConsumeTwo(buf, idx) == SubSeq(buf, idx + 3, Len(buf))

\* mutant of SkipLine: a rejected line re-anchors the time origin
SkipLineReanchor(st) == [st EXCEPT !.t0_us = Unset]

\* if parsed is None: continue
SkipLine(st) == st

\* del self._rx_buf[:idx+1]
Consume(buf, idx) == SubSeq(buf, idx + 2, Len(buf))

\* raw_bytes = self._rx_buf[:idx]
RawBytes(buf, idx) == SubSeq(buf, 1, idx)

\* mutant of Extract: an empty line gets no raw row
ExtractSkipsEmpty(st, env, idx, raw_bytes) ==
  [st EXCEPT !.rx_buf = Consume(@, idx),
             !.emitted = Append(@, raw_bytes),
             !.raw_rows = IF env.logging_raw /\ env.raw_file
                             /\ Len(st.emitted) + 1 \notin env.rawfail
                             /\ rstrip_cr(decode(raw_bytes)) # <<>>
                            THEN Append(@, decode(raw_bytes)) ELSE @,
             !.line = rstrip_cr(decode(raw_bytes))]

\* mutant of Extract: the raw write is not guarded, its failure reaches the
\* handler of poll_serial
ExtractUnguarded(st, env, idx, raw_bytes) ==
  IF env.logging_raw /\ env.raw_file /\ Len(st.emitted) + 1 \in env.rawfail
    THEN [st EXCEPT !.rx_buf = Consume(@, idx),
                    !.emitted = Append(@, raw_bytes),
                    !.exc = TRUE, !.label_status = "SerialError",
                    !.line = <<>>]
    ELSE [st EXCEPT !.rx_buf = Consume(@, idx),
                    !.emitted = Append(@, raw_bytes),
                    !.raw_rows = IF env.logging_raw /\ env.raw_file
                                   THEN Append(@, decode(raw_bytes)) ELSE @,
                    !.line = rstrip_cr(decode(raw_bytes))]

\* mutant of Extract: the raw row is the line after rstrip('\r')
ExtractStripped(st, env, idx, raw_bytes) ==
  [st EXCEPT !.rx_buf = Consume(@, idx),
             !.emitted = Append(@, raw_bytes),
             !.raw_rows = IF env.logging_raw /\ env.raw_file
                             /\ Len(st.emitted) + 1 \notin env.rawfail
                            THEN Append(@, rstrip_cr(decode(raw_bytes)))
                            ELSE @,
             !.line = rstrip_cr(decode(raw_bytes))]

\* the line is cut off the buffer and written to the raw log; a write that
\* raises is passed over (try: write except: pass)
Extract(st, env, idx, raw_bytes) ==
  [st EXCEPT !.rx_buf = Consume(@, idx),
             !.emitted = Append(@, raw_bytes),
             !.raw_rows = IF env.logging_raw /\ env.raw_file
                             /\ Len(st.emitted) + 1 \notin env.rawfail
                            THEN Append(@, decode(raw_bytes)) ELSE @,
             !.line = rstrip_cr(decode(raw_bytes))]

\* self.monitor_new_lines.append(...)
Monitor(st) == [st EXCEPT !.monitor_new_lines = Append(@, st.line)]

\* framing, raw logging and monitor of one line (fast, downsampled)
Framed(st, env, idx) ==
  Monitor(Extract(st, env, idx, RawBytes(st.rx_buf, idx)))

\* mutant of LogProcessed: no processed row while the plot is paused
LogProcessedUnlessPaused(st, env, parsed) ==
  [st EXCEPT !.proc_rows = IF env.logging_proc /\ env.proc_file /\ ~env.pause
                               /\ Len(st.emitted) \notin env.procfail
                             THEN Append(@, ProcRow(parsed)) ELSE @]

\* processed logging of pySerialPlot_fast.py; a row whose formatting or
\* write raises is passed over
LogProcessed(st, env, parsed) ==
  [st EXCEPT !.proc_rows = IF env.logging_proc /\ env.proc_file
                               /\ Len(st.emitted) \notin env.procfail
                             THEN Append(@, ProcRow(parsed)) ELSE @]

\* t0 is anchored, the sample appended and the buffer trimmed
AppendAt(st, env, tm, y_val) ==
  AppendTrim([st EXCEPT !.t0_us = tm.t0], env.buffer_seconds, tm.t_sec, y_val)

AppendStruct(st, env, parsed) ==
  AppendAt(st, env, StructTime(st, parsed),
           SelectY(env.variant, env.field, parsed))

\* the same with the host clock read twice
AppendClocked(st, env, tm, y_val) ==
  AppendAt([st EXCEPT !.now = tm.now, !.clock_read = TRUE], env, tm, y_val)

\* mutant of DispatchFast: a fallback scalar gets a processed row of zeros
\* before the handler fails on it
DispatchFastLogsScalar(st, env, parsed) ==
  IF parsed.kind = None THEN SkipLine(st)
  ELSE IF parsed.kind = "val"
    THEN [st EXCEPT !.exc = TRUE, !.label_status = "SerialError",
                    !.proc_rows = IF env.logging_proc /\ env.proc_file
                                    THEN Append(@, [t_us |-> 0]) ELSE @]
  ELSE AppendStruct(LogProcessed(st, env, parsed), env, parsed)

\* pySerialPlot_fast.py after parsed = self.parse_line(line)
DispatchFast(st, env, parsed) ==
  IF parsed.kind = None THEN SkipLine(st)
  ELSE IF parsed.kind = "val"
    \* parsed['t_us'] raises KeyError: caught by the outer except
    THEN [st EXCEPT !.exc = TRUE, !.label_status = "SerialError"]
  ELSE AppendStruct(LogProcessed(st, env, parsed), env, parsed)

\* pySerialPlot_downsampled.py after parsed = self.parse_line(line)
DispatchDownsampled(st, env, parsed) ==
  IF parsed.kind = None THEN SkipLine(st)
  ELSE IF parsed.kind = "val"
    THEN AppendClocked(st, env, FallbackTime(st, env.tick), parsed.val)
  ELSE AppendStruct(st, env, parsed)

Dispatch(st, env, parsed) ==
  IF env.variant = "fast" THEN DispatchFast(st, env, parsed)
  ELSE DispatchDownsampled(st, env, parsed)

Parsed(st, env) == Dispatch(st, env, parse_line(env.variant, st.line))

\* one turn of the while loop of poll_serial
LineStep(st, env) == Parsed(Framed(st, env, find(st.rx_buf, NL)), env)

RECURSIVE ProcessLines(_, _)
\* an exception leaves the loop, otherwise the next line is looked for
Continue(st, env) == IF st.exc THEN st ELSE ProcessLines(st, env)

\* while True: idx = find(b'\n'); if idx < 0: break; ...
ProcessLines(st, env) ==
  IF find(st.rx_buf, NL) < 0 THEN st ELSE Continue(LineStep(st, env), env)

\* mutant of poll_serial: what is left behind the last terminator is framed
\* as a line of its own
PollSerialFlushing(st, env, chunk) ==
  LET r == ProcessLines([st EXCEPT !.rx_buf = @ \o chunk,
                                   !.received = @ \o chunk], env)
  IN IF r.rx_buf = <<>> \/ r.exc THEN r
     ELSE Parsed(Monitor(Extract(r, env, Len(r.rx_buf), r.rx_buf)), env)

\* poll_serial once n = in_waiting > 0 bytes were read
poll_serial(st, env, chunk) ==
  ProcessLines([st EXCEPT !.rx_buf = @ \o chunk, !.received = @ \o chunk], env)

(***************************************************************************)
(* update_plot of pySerialPlot2.py                                         *)
(***************************************************************************)
max_lines_per_tick == 5000

\* serial.readline(): through the first newline, or what arrived before the
\* read timeout
ReadlineLen(avail) ==
  IF find(avail, NL) < 0 THEN Len(avail) ELSE find(avail, NL) + 1

\* fallback mode: append, then trim_buffers (cap only)
AppendScalarV2(st, tm, y_val) ==
  trim_buffers([st EXCEPT !.t0_us = tm.t0, !.now = tm.now, !.clock_read = TRUE,
                          !.x = Append(@, tm.t_sec),
                          !.y = Append(@, y_val),
                          !.accepted = Append(@, <<tm.t_sec, y_val>>)])

\* normal CSV mode: append and log (a writerow that raises is passed over),
\* no trimming inside the loop
AppendStructV2(st, env, parsed, tm, y_val) ==
  [st EXCEPT !.t0_us = tm.t0,
             !.x = Append(@, tm.t_sec),
             !.y = Append(@, y_val),
             !.accepted = Append(@, <<tm.t_sec, y_val>>),
             !.proc_rows = IF env.proc_file
                               /\ Len(st.emitted) \notin env.procfail
                             THEN Append(@, CsvRow(parsed)) ELSE @]

\* pySerialPlot2.py after parsed = self.parse_line(line)
DispatchV2(st, env, parsed) ==
  IF parsed.kind = None THEN SkipLine(st)
  ELSE IF parsed.kind = "val"
    THEN AppendScalarV2(st, FallbackTime(st, env.tick), parsed.val)
  ELSE AppendStructV2(st, env, parsed, StructTime(st, parsed),
                      SelectY("v2", env.field, parsed))

\* monitor_lines.append, lines_processed += 1, parse
MonitorV2(st, env) ==
  DispatchV2([st EXCEPT !.monitor_new_lines = Append(@, st.line),
                        !.lines_processed = @ + 1],
             env, parse_line("v2", st.line))

\* if not line: continue
NonEmptyV2(st, env) == IF st.line = <<>> THEN st ELSE MonitorV2(st, env)

\* one turn of the while loop of update_plot, raw = serial.readline()
LineStepV2(st, env, raw) ==
  NonEmptyV2([st EXCEPT !.emitted = Append(@, raw),
                        !.line = strip(decode(raw))], env)

RECURSIVE ReadLines(_, _, _)
ReadFirst(st, env, avail, k) ==
  ReadLines(LineStepV2(st, env, SubSeq(avail, 1, k)), env,
            SubSeq(avail, k + 1, Len(avail)))

\* while self.serial.in_waiting and lines_processed < max_lines_per_tick;
\* what is not read stays with the port
ReadLines(st, env, avail) ==
  IF avail = <<>> \/ st.lines_processed >= env.max_lines_per_tick
    THEN [st EXCEPT !.unread = avail,
                    !.received = SubSeq(@, 1, Len(@) - Len(avail))]
    ELSE ReadFirst(st, env, avail, ReadlineLen(avail))

\* if self.x_data: trim_by_time_window(); setData(); update_labels()
Redraw(st, env) ==
  IF st.x = <<>> THEN st
  ELSE [trim_by_time_window(st, env.buffer_seconds)
          EXCEPT !.label_status = "RunningPoints", !.drawn = TRUE]

update_plot(st, env, avail) ==
  Redraw(ReadLines([st EXCEPT !.received = @ \o avail], env, avail), env)

(***************************************************************************)
(* update_plot of pySerialPlot50.py                                        *)
(***************************************************************************)
\* standby_mode, standby_started, trigger_start, trigger_stop and csv_writer
\* after __init__; the start button is not checked
Fresh50 ==
  [standby_mode |-> FALSE, standby_started |-> FALSE,
   trigger_start |-> IntAsReal(0), trigger_stop |-> IntAsReal(0),
   csv_writer |-> FALSE, checked |-> FALSE]

\* a <= b for two floats
AtMost(a, b) == a.n * (10 ^ b.k) <= b.n * (10 ^ a.k)

\* [float(v) for v in line.split(",") if v.strip() != ""]
Values50(line) ==
  [i \in 1..Len(SelectSeq(split(line, ","), LAMBDA v : strip(v) # <<>>)) |->
     ParseFloat(SelectSeq(split(line, ","), LAMBDA v : strip(v) # <<>>)[i])]

\* decode("utf-8") or float() raises inside the try block
Raises50(raw) ==
  \/ \E i \in 1..Len(raw) : raw[i] = BadByte
  \/ \E i \in 1..Len(Values50(strip(raw))) : ~Values50(strip(raw))[i].ok

\* self.data = self.data[-self.max_data_points:], the limit scaled like
\* max_points_cap
Newest50(st) == HardCap(st)

\* for v in values: data.append((timestamp, v)); csv row
Append50(st, env, vals) ==
  [st EXCEPT !.x = @ \o [i \in 1..Len(vals) |-> st.now],
             !.y = @ \o [i \in 1..Len(vals) |-> vals[i].v],
             !.accepted = @ \o [i \in 1..Len(vals) |-> <<st.now, vals[i].v>>],
             !.proc_rows = IF st.app50.csv_writer
                             THEN @ \o [i \in 1..Len(vals) |->
                                          [t |-> st.now, v |-> vals[i].v]]
                             ELSE @,
             !.drawn = TRUE]

\* the values are appended and written, the buffer is cut and drawn.
\* writerow on a writer whose file stop_plotting closed raises ValueError
\* after the first data.append; in the except clause the f-string reads the
\* unbound name value and the NameError leaves the handler (exc)
Record50(st, env, vals) ==
  IF vals # <<>> /\ st.app50.csv_writer /\ ~(env.proc_file \/ st.csv_opened)
    THEN [st EXCEPT !.x = Append(@, st.now),
                    !.y = Append(@, vals[1].v),
                    !.accepted = Append(@, <<st.now, vals[1].v>>),
                    !.exc = TRUE, !.closed_write = TRUE]
    ELSE Newest50(Append50(st, env, vals))

\* mutant of Armed50: the start trigger needs a value above the threshold
Armed50Strict(st, env, v) ==
  IF AtMost(v, st.app50.trigger_start) THEN st
  ELSE [st EXCEPT !.app50.standby_started = TRUE,
                  !.app50.csv_writer = env.save_raw,
                  !.csv_opened = @ \/ env.save_raw,
                  !.proc_rows = IF env.save_raw THEN <<Csv50Header>> ELSE @]

\* not standby_started and v >= trigger_start: the csv file is opened if the
\* box is checked, the writer is dropped if not
Armed50(st, env, v) ==
  IF ~AtMost(st.app50.trigger_start, v) THEN st
  ELSE [st EXCEPT !.app50.standby_started = TRUE,
                  !.app50.csv_writer = env.save_raw,
                  !.csv_opened = @ \/ env.save_raw,
                  !.proc_rows = IF env.save_raw THEN <<Csv50Header>> ELSE @]

\* for v in values, in standby mode: the start trigger, or the stop trigger,
\* which ends the loop (stopped)
RECURSIVE Trigger50(_, _, _)
Trigger50(st, env, vals) ==
  IF vals = <<>> THEN st
  ELSE IF ~st.app50.standby_started
    THEN Trigger50(Armed50(st, env, Head(vals).v), env, Tail(vals))
  ELSE IF AtMost(Head(vals).v, st.app50.trigger_stop)
    THEN [st EXCEPT !.app50.standby_started = FALSE,
                    !.app50.standby_mode = FALSE,
                    !.stopped = TRUE]
  ELSE Trigger50(st, env, Tail(vals))

\* stop_plotting at the end of the stop branch, unless the recording raised
Stopped50(st) ==
  IF st.exc THEN [st EXCEPT !.stopped = FALSE]
  ELSE [st EXCEPT !.label_status = "Stopped"]

\* the stop branch records and stops; else the line is recorded unless the
\* standby mode waits for its start trigger
Gate50(st, env, vals) ==
  IF st.stopped THEN Stopped50(Record50(st, env, vals))
  ELSE IF ~st.app50.standby_mode \/ st.app50.standby_started
    THEN Record50(st, env, vals)
  ELSE st

Standby50(st, env, vals) ==
  Gate50(IF st.app50.standby_mode THEN Trigger50(st, env, vals) ELSE st,
         env, vals)

\* the handler up to the point where it returns or raises; raw is what
\* serial.readline() returned.  In the except clause the f-string reads the
\* unbound name value: the NameError leaves the handler (exc)
update_plot50(st, env, raw) ==
  IF \E i \in 1..Len(raw) : raw[i] = BadByte
    THEN [st EXCEPT !.received = @ \o raw, !.emitted = Append(@, raw),
                    !.exc = TRUE]
  ELSE IF Raises50(raw)
    THEN [st EXCEPT !.received = @ \o raw, !.emitted = Append(@, raw),
                    !.monitor_new_lines = Append(@, strip(raw)),
                    !.exc = TRUE]
  ELSE Standby50([st EXCEPT !.received = @ \o raw,
                            !.emitted = Append(@, raw),
                            !.monitor_new_lines = Append(@, strip(raw))],
                 env, Values50(strip(raw)))

(***************************************************************************)
(* Handlers                                                                *)
(***************************************************************************)
\* the mutable part of self that the ingestion loop works on, with the
\* handler's locals
Self ==
  [rx_buf |-> rx_buf, x |-> x, y |-> y, t0_us |-> t0_us,
   raw_rows |-> raw_rows, proc_rows |-> proc_rows,
   monitor_new_lines |-> monitor_new_lines, label_status |-> label_status,
   received |-> received, emitted |-> emitted, accepted |-> accepted,
   now |-> mono, clock_read |-> FALSE, exc |-> FALSE, lines_processed |-> 0,
   drawn |-> FALSE, line |-> <<>>, curve |-> curve,
   max_points_cap |-> max_points_cap, unread |-> <<>>,
   app50 |-> app50, csv_opened |-> FALSE, stopped |-> FALSE,
   closed_write |-> FALSE]

\* what the handler reads but does not change: widgets, sink handles, the
\* clock's pace, and the session line numbers whose raw / processed write
\* raises
Env(tick) ==
  [variant |-> variant, buffer_seconds |-> buffer_seconds, field |-> field,
   logging_raw |-> logging_raw, raw_file |-> raw_file,
   logging_proc |-> logging_proc, proc_file |-> proc_file, tick |-> tick,
   pause |-> pause, ds |-> ds, maxp |-> maxp,
   rawfail |-> {}, procfail |-> {},
   max_lines_per_tick |-> max_lines_per_tick, save_raw |-> save_raw]

WidgetVars == << variant, buffer_seconds, max_points_cap, field, save_raw,
                 save_proc, pause, ds, maxp >>
ConfigVars == << WidgetVars, app50 >>
SinkHandles == << logging_raw, raw_file, logging_proc, proc_file >>
HarnessVars == << pline, presult >>

Store(s) ==
  /\ rx_buf' = s.rx_buf
  /\ x' = s.x
  /\ y' = s.y
  /\ t0_us' = s.t0_us
  /\ raw_rows' = s.raw_rows
  /\ proc_rows' = s.proc_rows
  /\ monitor_new_lines' = s.monitor_new_lines
  /\ label_status' = s.label_status
  /\ received' = s.received
  /\ emitted' = s.emitted
  /\ accepted' = s.accepted
  /\ mono' = (IF s.clock_read THEN s.now ELSE mono)
  /\ curve' = (IF s.drawn THEN <<s.x, s.y>> ELSE s.curve)

\* poll_timer -> poll_serial (fast, downsampled); plot_timer -> update_plot (v2)
\* n = serial.in_waiting bytes are read.  The host clock is dt later than at
\* its last reading when the handler first reads it, and advances by tick
\* from one reading to the next.
PollWith(n, dt, env) ==
  /\ variant \in Variants
  /\ serial
  /\ n \in 1..Len(wire)
  /\ mono + dt <= MaxClock
  /\ Store(IF variant = "v2"
             THEN update_plot([Self EXCEPT !.now = mono + dt], env,
                              SubSeq(wire, 1, n))
             ELSE poll_serial([Self EXCEPT !.now = mono + dt], env,
                              SubSeq(wire, 1, n)))
  /\ wire' = (IF variant = "v2"
                THEN update_plot([Self EXCEPT !.now = mono + dt], env,
                                 SubSeq(wire, 1, n)).unread
                ELSE <<>>)
               \o SubSeq(wire, n + 1, Len(wire))
  /\ UNCHANGED << serial, starts >>
  /\ UNCHANGED << ConfigVars, SinkHandles, HarnessVars >>

\* the handler with every sink write succeeding
Poll(n, tick, dt) == PollWith(n, dt, Env(tick))

\* what update_plot of pySerialPlot50.py leaves behind
Store50(res, abort) ==
  /\ Store(res)
  /\ app50' = res.app50
  /\ IF abort /\ res.exc
       THEN /\ closed' = TRUE
            /\ serial' = FALSE
            /\ raw_file' = FALSE
            /\ proc_file' = FALSE
       ELSE /\ serial' = ~res.stopped
            /\ proc_file' = (~res.stopped /\ (proc_file \/ res.csv_opened))
            /\ UNCHANGED << closed, raw_file >>

\* plot_timer -> update_plot of pySerialPlot50.py with n = in_waiting > 0:
\* one readline per tick.  An exception that leaves the slot ends the
\* process where PyQt5 aborts on it (abort), and is only printed elsewhere
Poll50(n, dt, abort) ==
  /\ ~closed
  /\ variant = "v50"
  /\ serial
  /\ n \in 1..Len(wire)
  /\ mono + dt <= MaxClock
  /\ Store50(update_plot50([Self EXCEPT !.now = mono + dt], Env(0),
                           SubSeq(wire, 1, ReadlineLen(SubSeq(wire, 1, n)))),
             abort)
  /\ wire' = SubSeq(wire, ReadlineLen(SubSeq(wire, 1, n)) + 1, Len(wire))
  /\ UNCHANGED << starts, logging_raw, logging_proc, twin >>
  /\ UNCHANGED << WidgetVars, HarnessVars >>

\* mutant of PollError: the handler drops the port handle
PollErrorDropsPort ==
  /\ serial
  /\ variant \in FramedVariants
  /\ serial' = FALSE
  /\ label_status' = "SerialError"
  /\ UNCHANGED << wire, rx_buf, x, y, t0_us, raw_rows, proc_rows,
                  monitor_new_lines, curve, mono, starts, received, emitted,
                  accepted >>
  /\ UNCHANGED << ConfigVars, SinkHandles, HarnessVars >>

\* serial.in_waiting / serial.read raising inside poll_serial
PollError ==
  /\ serial
  /\ variant \in FramedVariants
  /\ label_status' = "SerialError"
  /\ UNCHANGED << serial, wire, rx_buf, x, y, t0_us, raw_rows, proc_rows,
                  monitor_new_lines, curve, mono, starts, received, emitted,
                  accepted >>
  /\ UNCHANGED << ConfigVars, SinkHandles, HarnessVars >>

\* mutant of ResetSession: the carry-over bytes survive
ResetSessionKeepsCarry ==
  /\ rx_buf' = rx_buf
  /\ monitor_new_lines' = <<>>
  /\ x' = <<>>
  /\ y' = <<>>
  /\ t0_us' = Unset
  /\ curve' = << <<>>, <<>> >>
  /\ received' = <<>>
  /\ emitted' = <<>>
  /\ accepted' = <<>>

\* reset_session_state
ResetSession ==
  /\ rx_buf' = <<>>
  /\ monitor_new_lines' = <<>>
  /\ x' = <<>>
  /\ y' = <<>>
  /\ t0_us' = Unset
  /\ curve' = << <<>>, <<>> >>
  /\ received' = <<>>
  /\ emitted' = <<>>
  /\ accepted' = <<>>

\* toggle_plotting, button checked, serial.Serial(...) succeeds
Start ==
  /\ variant \in Variants
  /\ ~serial
  /\ starts < MaxStarts
  /\ starts' = starts + 1
  /\ serial' = TRUE
  /\ ResetSession
  /\ IF variant = "fast"
       THEN /\ logging_raw' = save_raw
            /\ logging_proc' = save_proc
            /\ raw_file' = (IF save_raw THEN TRUE ELSE raw_file)
            /\ proc_file' = (IF save_proc THEN TRUE ELSE proc_file)
            /\ raw_rows' = (IF save_raw THEN <<>> ELSE raw_rows)
            /\ proc_rows' = (IF save_proc THEN <<ProcHeader>> ELSE proc_rows)
       ELSE IF variant = "downsampled"
       THEN /\ logging_raw' = save_raw
            /\ raw_file' = save_raw
            /\ raw_rows' = <<>>
            /\ UNCHANGED << logging_proc, proc_file, proc_rows >>
       ELSE /\ proc_file' = (IF save_raw THEN TRUE ELSE proc_file)
            /\ proc_rows' = (IF save_raw THEN <<CsvHeader>> ELSE proc_rows)
            /\ UNCHANGED << logging_raw, logging_proc, raw_file, raw_rows >>
  /\ label_status' = "Running"
  /\ UNCHANGED << wire, mono >>
  /\ UNCHANGED << ConfigVars, HarnessVars >>

\* toggle_plotting of pySerialPlot50.py, button checked, the port opens
Start50 ==
  /\ variant = "v50"
  /\ ~app50.checked
  /\ starts < MaxStarts
  /\ app50' = [app50 EXCEPT !.checked = TRUE, !.csv_writer = save_raw]
  /\ starts' = starts + 1
  /\ serial' = TRUE
  /\ x' = <<>>
  /\ y' = <<>>
  /\ proc_file' = (save_raw \/ proc_file)
  /\ proc_rows' = (IF save_raw THEN <<Csv50Header>> ELSE proc_rows)
  /\ label_status' = "Running"
  /\ received' = <<>>
  /\ emitted' = <<>>
  /\ accepted' = <<>>
  /\ UNCHANGED << wire, rx_buf, t0_us, raw_rows, raw_file, logging_raw,
                  logging_proc, monitor_new_lines, curve, mono >>
  /\ UNCHANGED << WidgetVars, HarnessVars >>

\* mutant of StartFails: the session state is reset before the port is opened
StartFailsAfterReset(why) ==
  /\ ~serial
  /\ label_status' = why
  /\ ResetSession
  /\ UNCHANGED << serial, wire, raw_rows, proc_rows, mono, starts >>
  /\ UNCHANGED << ConfigVars, SinkHandles, HarnessVars >>

\* toggle_plotting, button checked: no port selected, or SerialException
StartFails(why) ==
  /\ ~serial
  /\ label_status' = why
  /\ UNCHANGED << serial, wire, rx_buf, x, y, t0_us, raw_rows, proc_rows,
                  monitor_new_lines, curve, mono, starts, received, emitted,
                  accepted >>
  /\ UNCHANGED << ConfigVars, SinkHandles, HarnessVars >>

\* toggle_plotting, button checked: serial.Serial(...) succeeds and open() of
\* the sink `which` raises OSError, which `except serial.SerialException`
\* does not catch.  The exception leaves the slot: the process ends where
\* PyQt5 aborts on it (abort), elsewhere it is printed and the handler's
\* assignments up to the open() stand
StartSinkFails(which, abort) ==
  /\ ~closed
  /\ variant \in Variants
  /\ ~serial
  /\ starts < MaxStarts
  /\ IF which = "raw" THEN variant \in FramedVariants /\ save_raw
                      ELSE \/ variant = "fast" /\ save_proc
                           \/ variant = "v2" /\ save_raw
  /\ starts' = starts + 1
  /\ ResetSession
  /\ IF abort
       THEN /\ closed' = TRUE
            /\ serial' = FALSE
            /\ raw_file' = FALSE
            /\ proc_file' = FALSE
            /\ UNCHANGED << logging_raw, logging_proc, raw_rows >>
       ELSE /\ serial' = TRUE
            /\ logging_raw' = (IF variant = "fast" THEN save_raw
                                                   ELSE logging_raw)
            /\ logging_proc' = (IF variant = "fast" THEN save_proc
                                                    ELSE logging_proc)
            /\ raw_file' = (IF variant = "fast" /\ which = "proc" /\ save_raw
                              THEN TRUE ELSE raw_file)
            /\ raw_rows' = (IF variant = "fast" /\ which = "proc" /\ save_raw
                              THEN <<>> ELSE raw_rows)
            /\ UNCHANGED << closed, proc_file >>
  /\ UNCHANGED << label_status, proc_rows, wire, mono, twin >>
  /\ UNCHANGED << ConfigVars, HarnessVars >>

\* mutant of StopPlotting: the raw sink is left as it is
StopPlottingKeepsRaw ==
  /\ serial' = FALSE
  /\ proc_file' = FALSE
  /\ label_status' = "Stopped"
  /\ UNCHANGED << wire, rx_buf, x, y, t0_us, raw_rows, proc_rows, logging_proc,
                  monitor_new_lines, curve, mono, starts, received, emitted,
                  accepted, raw_file, logging_raw >>
  /\ UNCHANGED << ConfigVars, HarnessVars >>

\* stop_plotting
StopPlotting ==
  /\ serial' = FALSE
  /\ raw_file' = FALSE
  /\ proc_file' = FALSE
  /\ logging_raw' = (IF variant = "downsampled" THEN FALSE ELSE logging_raw)
  /\ label_status' = "Stopped"
  /\ UNCHANGED << wire, rx_buf, x, y, t0_us, raw_rows, proc_rows, logging_proc,
                  monitor_new_lines, curve, mono, starts, received, emitted,
                  accepted >>
  /\ UNCHANGED << ConfigVars, HarnessVars >>

\* toggle_plotting, button unchecked
Stop == variant \in Variants /\ serial /\ StopPlotting

\* stop_plotting of pySerialPlot50.py: the csv file is closed, csv_writer is
\* left as it is
StopPlotting50 ==
  /\ serial' = FALSE
  /\ proc_file' = FALSE
  /\ label_status' = "Stopped"
  /\ UNCHANGED << wire, rx_buf, x, y, t0_us, raw_rows, proc_rows,
                  monitor_new_lines, curve, mono, starts, received, emitted,
                  accepted, logging_raw, raw_file, logging_proc >>
  /\ UNCHANGED << WidgetVars, HarnessVars >>

\* toggle_plotting of pySerialPlot50.py, button unchecked
Stop50 ==
  /\ variant = "v50"
  /\ app50.checked
  /\ app50' = [app50 EXCEPT !.checked = FALSE]
  /\ StopPlotting50

\* toggle_standby with thresholds that float() reads and a port that opens
ToggleStandby(lo, hi) ==
  /\ variant = "v50"
  /\ ~app50.standby_started
  /\ app50' = [app50 EXCEPT !.trigger_start = IntAsReal(lo),
                            !.trigger_stop = IntAsReal(hi),
                            !.standby_mode = ~@,
                            !.standby_started = FALSE]
  /\ serial' = TRUE
  /\ x' = <<>>
  /\ y' = <<>>
  /\ UNCHANGED << wire, rx_buf, t0_us, raw_rows, proc_rows, label_status,
                  monitor_new_lines, curve, mono, starts, received, emitted,
                  accepted >>
  /\ UNCHANGED << WidgetVars, SinkHandles, HarnessVars >>

\* closeEvent: stop_plotting in whatever state, then the window is gone
Close ==
  /\ ~closed
  /\ StopPlotting
  /\ closed' = TRUE
  /\ UNCHANGED twin

\* mutant of Decimate: the last element is always added
DecimateKeepLast(s, step) ==
  [i \in 1..((Len(s) + step - 1) \div step) |-> s[(i - 1) * step + 1]]
    \o << s[Len(s)] >>

\* xs = list(self.x)[::step]
Decimate(s, step) ==
  [i \in 1..((Len(s) + step - 1) \div step) |-> s[(i - 1) * step + 1]]

Max(a, b) == IF a >= b THEN a ELSE b

\* mutant of DrawStep: the stride does not grow with the buffer
DrawStepFixed(n, d, m) == Max(1, d)

\* mutant of DrawStep: n / maxp rounded up
DrawStepCeil(n, d, m) ==
  IF n > Max(200, m)
    THEN Max(Max(1, d), (n + Max(200, m) - 1) \div Max(200, m))
    ELSE Max(1, d)

\* step = max(ds, n // maxp) if n > maxp else ds
DrawStep(n, d, m) ==
  IF n > Max(200, m) THEN Max(Max(1, d), n \div Max(200, m)) ELSE Max(1, d)

\* the plot block of update_ui: decimated draw and status text
Draw(st, step) ==
  [st EXCEPT !.curve = << Decimate(st.x, step), Decimate(st.y, step) >>,
             !.label_status = "RunningPoints"]

\* the monitor block of update_ui, throttled (commented out in downsampled)
FlushMonitor(st, env, flush) ==
  IF env.variant = "fast" /\ flush /\ st.monitor_new_lines # <<>>
    THEN [st EXCEPT !.monitor_new_lines = <<>>]
    ELSE st

\* mutant of update_ui: a redraw drops the oldest buffered point
UpdateUiTrimming(st, env, flush) ==
  FlushMonitor(IF st.x # <<>> /\ ~env.pause
                 THEN Dropped(Draw(st, DrawStep(Len(st.x), env.ds, env.maxp)),
                              IF Len(st.x) > 1 THEN 1 ELSE 0)
                 ELSE st,
               env, flush)

update_ui(st, env, flush) ==
  FlushMonitor(IF st.x # <<>> /\ ~env.pause
                 THEN Draw(st, DrawStep(Len(st.x), env.ds, env.maxp))
                 ELSE st,
               env, flush)

\* ui_timer -> update_ui (fast, downsampled); flush: the monitor throttle
\* interval has elapsed
UpdateUI(flush) ==
  /\ variant \in FramedVariants
  /\ Store(update_ui(Self, Env(0), flush))
  /\ UNCHANGED << serial, wire, starts >>
  /\ UNCHANGED << ConfigVars, SinkHandles, HarnessVars >>

StateVars == << serial, wire, rx_buf, x, y, t0_us, raw_rows, proc_rows,
                monitor_new_lines, label_status, curve, mono, starts,
                received, emitted, accepted >>

\* duration_selector -> update_buffer_size
SetBuffer(w) ==
  /\ serial
  /\ w # buffer_seconds
  /\ buffer_seconds' = w
  /\ UNCHANGED << variant, max_points_cap, app50,
                  field, save_raw, save_proc, pause, ds, maxp >>
  /\ UNCHANGED << StateVars, SinkHandles, HarnessVars >>

\* field_selector
SetField(f) ==
  /\ f # field
  /\ field' = f
  /\ UNCHANGED << variant, max_points_cap, app50,
                  buffer_seconds, save_raw, save_proc, pause, ds, maxp >>
  /\ UNCHANGED << StateVars, SinkHandles, HarnessVars >>

\* pause_plot_checkbox
TogglePause ==
  /\ variant \in FramedVariants
  /\ pause' = ~pause
  /\ UNCHANGED << variant, max_points_cap, app50,
                  buffer_seconds, field, save_raw, save_proc, ds, maxp >>
  /\ UNCHANGED << StateVars, SinkHandles, HarnessVars >>

\* ds_spin, range 1..1000
SetDs(d) ==
  /\ variant \in FramedVariants
  /\ d # ds
  /\ ds' = d
  /\ UNCHANGED << variant, max_points_cap, app50,
                  buffer_seconds, field, save_raw, save_proc, pause,
                  maxp >>
  /\ UNCHANGED << StateVars, SinkHandles, HarnessVars >>

\* maxpoints_spin, range 200..200000
SetMaxPoints(m) ==
  /\ variant \in FramedVariants
  /\ m # maxp
  /\ maxp' = m
  /\ UNCHANGED << variant, max_points_cap, app50,
                  buffer_seconds, field, save_raw, save_proc, pause,
                  ds >>
  /\ UNCHANGED << StateVars, SinkHandles, HarnessVars >>

\* save_raw_checkbox (save_csv_checkbox in downsampled and v2)
ToggleSaveRaw ==
  /\ save_raw' = ~save_raw
  /\ UNCHANGED << variant, max_points_cap, app50,
                  buffer_seconds, field, save_proc, pause, ds, maxp >>
  /\ UNCHANGED << StateVars, SinkHandles, HarnessVars >>

\* save_proc_checkbox
ToggleSaveProc ==
  /\ variant = "fast"
  /\ save_proc' = ~save_proc
  /\ UNCHANGED << variant, max_points_cap, app50,
                  buffer_seconds, field, save_raw, pause, ds, maxp >>
  /\ UNCHANGED << StateVars, SinkHandles, HarnessVars >>

\* a callback of the one run the model follows, delivered while the window
\* is open
Callback(A) == ~closed /\ A /\ UNCHANGED << closed, twin >>

(***************************************************************************)
(* Session specification                                                   *)
(***************************************************************************)
\* the state after __init__
InitSelf ==
  /\ serial = FALSE
  /\ rx_buf = <<>>
  /\ x = <<>>
  /\ y = <<>>
  /\ t0_us = Unset
  /\ buffer_seconds = 10
  /\ field = DefaultField(variant)
  /\ save_raw = TRUE
  /\ save_proc = TRUE
  /\ logging_raw = FALSE
  /\ raw_file = FALSE
  /\ raw_rows = <<>>
  /\ logging_proc = FALSE
  /\ proc_file = FALSE
  /\ proc_rows = <<>>
  /\ monitor_new_lines = <<>>
  /\ label_status = "Waiting"
  /\ pause = FALSE
  /\ ds = 10
  /\ maxp = 2000
  /\ curve = << <<>>, <<>> >>
  /\ mono = 0
  /\ starts = 0
  /\ received = <<>>
  /\ emitted = <<>>
  /\ accepted = <<>>
  /\ closed = FALSE
  /\ app50 = Fresh50

\* max_points_cap = 2_000_000, scaled
InitProgram ==
  /\ variant \in Variants
  /\ max_points_cap = MaxPointsCap
  /\ InitSelf

Init ==
  /\ InitProgram
  /\ twin = Unset
  /\ wire \in Streams(MaxLines)
  /\ pline = <<>>
  /\ presult = Unset

\* host time offered to a handler, as <<dt, tick>>: either the clock shows no
\* progress since its last reading, or it is ClockJump later at the first
\* reading and one micro-second later at each further reading
ClockJump == 6000000
Elapsed == { <<0, 0>>, <<ClockJump, 1>> }

\* time.monotonic() is read by the fallback branch only, which pySerialPlot_fast
\* never reaches
ElapsedOf(v) == IF v = "fast" THEN { <<0, 0>> } ELSE Elapsed

AtLineStart == received = <<>> \/ received[Len(received)] = NL

\* read sizes offered to a handler: through the end of any pending line, up to
\* (not including) the next terminator, and half-way into a fresh line
LineEnds(w) == { i \in 1..Len(w) : w[i] = NL }

ChunkSizes(w) ==
  LineEnds(w)
    \cup (IF find(w, NL) > 0 THEN {find(w, NL)} ELSE {})
    \cup (IF find(w, NL) > 1 /\ AtLineStart THEN {find(w, NL) \div 2} ELSE {})

Next ==
  \/ \E n \in ChunkSizes(wire), e \in ElapsedOf(variant) :
       Callback(Poll(n, e[2], e[1]))
  \/ Callback(Start)
  \/ Callback(Stop)
  \/ \E w \in WindowChoices : Callback(SetBuffer(w))

Spec == Init /\ [][Next]_vars

(***************************************************************************)
(* Framing specification: short lines, a read may end after any byte       *)
(***************************************************************************)
\* fragments the device sends: a scalar line, a junk line ended by CR LF, an
\* empty line, and a digit with no terminator
FrameFragments == { <<"7", NL>>, <<"x", CR, NL>>, <<NL>>, <<"7">> }

RECURSIVE FrameStreams(_)
FrameStreams(k) ==
  IF k = 0 THEN { <<>> }
  ELSE LET shorter == FrameStreams(k - 1)
       IN shorter \cup { s \o f : s \in shorter, f \in FrameFragments }

InitFrame ==
  /\ InitProgram
  /\ variant \in FramedVariants
  /\ wire \in FrameStreams(MaxLines)
  /\ pline = <<>>
  /\ presult = Unset
  /\ twin = Unset

StartFailures == {"NoPort", "OpenError"}

NextFrame ==
  \/ \E n \in 1..Len(wire), e \in ElapsedOf(variant) :
       Callback(Poll(n, e[2], e[1]))
  \/ Callback(PollError)
  \/ Callback(Start)
  \/ \E why \in StartFailures : Callback(StartFails(why))
  \/ Callback(Stop)
  \/ \E flush \in BOOLEAN : Callback(UpdateUI(flush))
  \/ \E f \in FieldsOf(variant) : Callback(SetField(f))
  \/ Callback(TogglePause)

SpecFrame == InitFrame /\ [][NextFrame]_vars

(***************************************************************************)
(* Parser specification: one line under test, parsed on its own and fed    *)
(* through a session after a structured line                               *)
(***************************************************************************)
Field1 == { <<"1", "0", "0", "0">>,
    <<"x">>,
    <<"T", "_", "u", "s">>,
    <<" ", "t", "i", "m", "e", "_", "u", "s">>,
    <<"t">>,
    <<"1", ".", "5">> }
Field2 == { <<"5", "1", "2">>,
    <<"5", "1", "2", ".", "0">>,
    <<"x">> }
Field3 == { <<"5", "1", "2", "0", "0", "0">>,
    <<"5", "1", "2", ".", "0">>,
    <<"x">> }
Field4 == { <<"1", "6", "5", "0", "0", "0", "0">>,
    <<"1", ".", "6", "5">>,
    <<"2", "0", "0", "0", "0">>,
    <<"2", "0", "0", "0", "1">>,
    <<"-", "2", "5", "0", "0", "0">>,
    <<"3", "e", "4">>,
    <<"x">> }
Field5 == { <<"2", "5", "0", "0", "0", "0", "0">>,
    <<"2", ".", "5", "0">>,
    <<"5", "0", "0", "0", "0", "0">>,
    <<"4", ".", "5">>,
    <<"0", ".", "6">>,
    <<"2", "0", "0", "0", "0">>,
    <<"-", "2", "0", "0", "0", "1">>,
    <<"x">> }
Field6 == { <<>>,
    <<",", "9">> }

Comma == <<",">>

ParseLines ==
  { f1 : f1 \in Field1 }
    \cup { f1 \o Comma \o f2 : f1 \in Field1, f2 \in Field2 }
    \cup { f1 \o Comma \o f2 \o Comma \o f3 \o Comma \o f4 :
             f1 \in Field1, f2 \in Field2, f3 \in Field3, f4 \in Field4 }
    \cup { f1 \o Comma \o f2 \o Comma \o f3 \o Comma \o f4 \o Comma \o f5 \o f6 :
             f1 \in Field1, f2 \in Field2, f3 \in Field3, f4 \in Field4,
             f5 \in Field5, f6 \in Field6 }

InitParse ==
  /\ InitProgram
  /\ pline \in ParseLines
  /\ wire = LineInt0 \o <<NL>> \o pline \o <<NL>>
  /\ presult = Unset
  /\ twin = Unset

\* parse_line applied to the line under test
ParseStep ==
  /\ presult = Unset
  /\ presult' = << parse_line(variant, pline) >>
  /\ UNCHANGED << pline, StateVars, ConfigVars, SinkHandles, closed, twin >>

NextParse ==
  \/ ParseStep
  \/ presult # Unset /\ Callback(Start)
  \/ \E n \in LineEnds(wire), e \in ElapsedOf(variant) :
       Callback(Poll(n, e[2], e[1]))

SpecParse == InitParse /\ [][NextParse]_vars

(***************************************************************************)
(* Lifecycle specification: start, failed start, stop, window close and    *)
(* the save checkboxes around a short stream                               *)
(***************************************************************************)
\* two structured lines, or a structured and a scalar line, then the first
\* byte of a line whose rest never arrives
InitSession ==
  /\ InitProgram
  /\ wire \in { LineInt0 \o <<NL>> \o l \o <<NL>> \o <<"7">> :
                l \in {LineInt9, LineScalar} }
  /\ pline = <<>>
  /\ presult = Unset
  /\ twin = Unset

NextSession ==
  \/ \E n \in LineEnds(wire) \cup {Len(wire)}, e \in ElapsedOf(variant) :
       Callback(Poll(n, e[2], e[1]))
  \/ Callback(PollError)
  \/ Callback(Start)
  \/ \E why \in StartFailures : Callback(StartFails(why))
  \/ Callback(Stop)
  \/ Close
  \/ Callback(ToggleSaveRaw)
  \/ Callback(ToggleSaveProc)

SpecSession == InitSession /\ [][NextSession]_vars

(***************************************************************************)
(* Start failure specification: the sink files may fail to open after the  *)
(* port was opened                                                         *)
(***************************************************************************)
SinkNames == {"raw", "proc"}

\* plot_timer of pySerialPlot2.py runs from a start that reached
\* plot_timer.start(20) to the next stop; the poll timer of the framed
\* variants runs from construction
TimerRuns ==
  variant = "v2" => label_status \notin ({"Waiting", "Stopped"} \cup StartFailures)

NextStartFail ==
  \/ \E n \in LineEnds(wire), e \in ElapsedOf(variant) :
       TimerRuns /\ Callback(Poll(n, e[2], e[1]))
  \/ Callback(Start)
  \/ \E why \in StartFailures : Callback(StartFails(why))
  \/ \E which \in SinkNames, abort \in BOOLEAN : StartSinkFails(which, abort)
  \/ Callback(Stop)
  \/ Callback(ToggleSaveRaw)
  \/ Callback(ToggleSaveProc)

SpecStartFail == InitSession /\ [][NextStartFail]_vars

(***************************************************************************)
(* Refresh specification: poll and refresh cycles interleave while the     *)
(* pause checkbox is toggled; a second run receives the same bytes in the  *)
(* same reads at the same times under a pause flag of its own              *)
(***************************************************************************)
InitRefresh ==
  /\ InitProgram
  /\ variant \in FramedVariants
  /\ wire \in { LineInt0 \o <<NL>> \o l \o <<NL>> :
                l \in {LineInt9, LineScalar} }
  /\ pline = <<>>
  /\ presult = Unset
  /\ twin = [self |-> Self, pause |-> FALSE]

\* the widgets as the second run sees them
TwinEnv(tick) == [Env(tick) EXCEPT !.pause = twin.pause]

\* the second run's state as a handler finds it at time now
TwinSelf(now) ==
  [twin.self EXCEPT !.now = now, !.clock_read = FALSE, !.exc = FALSE,
                    !.line = <<>>]

\* callback A in the first run, with the second run moving to st
InBoth(A, st) ==
  ~closed /\ A /\ twin' = [twin EXCEPT !.self = st] /\ UNCHANGED closed

\* pause_plot_checkbox of the second run
TogglePauseTwin ==
  /\ ~closed
  /\ twin' = [twin EXCEPT !.pause = ~@]
  /\ UNCHANGED << StateVars, ConfigVars, SinkHandles, HarnessVars, closed >>

NextRefresh ==
  \/ \E n \in LineEnds(wire), e \in ElapsedOf(variant) :
       InBoth(Poll(n, e[2], e[1]),
              poll_serial(TwinSelf(mono + e[1]), TwinEnv(e[2]),
                          SubSeq(wire, 1, n)))
  \/ \E flush \in BOOLEAN :
       InBoth(UpdateUI(flush), update_ui(TwinSelf(mono), TwinEnv(0), flush))
  \/ InBoth(Start, Self')
  \/ InBoth(Stop, [twin.self EXCEPT !.label_status = "Stopped"])
  \/ Callback(TogglePause)
  \/ TogglePauseTwin

SpecRefresh == InitRefresh /\ [][NextRefresh]_vars

(***************************************************************************)
(* Sink failure specification: the writes of some lines raise; a second    *)
(* run receives the same bytes in the same reads and all its writes        *)
(* succeed                                                                 *)
(***************************************************************************)
\* three lines; the raw and the processed write of the first two may fail
InitSinkFail ==
  /\ InitProgram
  /\ wire \in { LineInt0 \o <<NL>> \o l \o <<NL>> \o LineInt9 \o <<NL>> :
                l \in {LineInt9, LineScalar} }
  /\ pline = <<>>
  /\ presult = Unset
  /\ \E rf \in SUBSET {1, 2}, pf \in SUBSET {1, 2} :
       twin = [self |-> Self, rawfail |-> rf, procfail |-> pf]

\* the handler's surroundings with the failing writes
FaultyEnv(tick) ==
  [Env(tick) EXCEPT !.rawfail = twin.rawfail, !.procfail = twin.procfail]

NextSinkFail ==
  \/ \E n \in LineEnds(wire), e \in ElapsedOf(variant) :
       InBoth(PollWith(n, e[1], FaultyEnv(e[2])),
              IF variant = "v2"
                THEN update_plot(TwinSelf(mono + e[1]), Env(e[2]),
                                 SubSeq(wire, 1, n))
                ELSE poll_serial(TwinSelf(mono + e[1]), Env(e[2]),
                                 SubSeq(wire, 1, n)))
  \/ InBoth(Start, Self')
  \/ InBoth(Stop, [twin.self EXCEPT !.label_status = "Stopped"])

SpecSinkFail == InitSinkFail /\ [][NextSinkFail]_vars

(***************************************************************************)
(* Rejection specification: a line no variant accepts between two          *)
(* structured lines; pySerialPlot50.py takes part                          *)
(***************************************************************************)
\* a header, junk, an empty line, a line with a bad third field
RejectedLines ==
  { <<"t", "_", "u", "s", ",", "r", "a", "w">>, <<"x">>, <<>>,
    <<"0", ",", "5", ",", "x", ",", "3", "0", "0", "0", "0", ",",
      "4", "0", "0", "0", "0">> }

InitDiscard ==
  /\ max_points_cap = MaxPointsCap
  /\ variant \in Variants \cup {"v50"}
  /\ InitSelf
  /\ wire \in { LineInt0 \o <<NL>> \o l \o <<NL>> \o LineInt9 \o <<NL>> :
                l \in RejectedLines }
  /\ pline = <<>>
  /\ presult = Unset
  /\ twin = Unset

NextDiscard ==
  \/ \E n \in LineEnds(wire), e \in ElapsedOf(variant) :
       Callback(Poll(n, e[2], e[1]))
  \/ \E n \in LineEnds(wire), abort \in BOOLEAN : Poll50(n, 0, abort)
  \/ Callback(Start)
  \/ Callback(Start50)
  \/ Callback(Stop)
  \/ Callback(Stop50)

SpecDiscard == InitDiscard /\ [][NextDiscard]_vars

(***************************************************************************)
(* Standby specification: pySerialPlot50.py with its Start and Standby     *)
(* buttons and the csv checkbox, fed values around the thresholds          *)
(***************************************************************************)
StandbyLines == { <<"3", NL>>, <<"7", NL>>, <<"7", ",", "3", NL>> }

\* up to three of these lines
StandbyStreams ==
  { a \o b \o c : a, b, c \in StandbyLines \cup { <<>> } }

\* start and stop thresholds typed into the two boxes
Thresholds == { <<7, 7>>, <<7, 3>> }

InitStandby ==
  /\ max_points_cap = MaxPointsCap
  /\ variant = "v50"
  /\ InitSelf
  /\ wire \in StandbyStreams
  /\ pline = <<>>
  /\ presult = Unset
  /\ twin = Unset

NextStandby ==
  \/ \E n \in LineEnds(wire), abort \in BOOLEAN : Poll50(n, 0, abort)
  \/ Callback(Start50)
  \/ Callback(Stop50)
  \/ \E t \in Thresholds : Callback(ToggleStandby(t[1], t[2]))
  \/ Callback(ToggleSaveRaw)

SpecStandby == InitStandby /\ [][NextStandby]_vars

(***************************************************************************)
(* Reconfiguration specification: window, field and decimation widgets     *)
(* are operated at any time around two structured lines                    *)
(***************************************************************************)
InitReconfig ==
  /\ InitProgram
  /\ wire \in { a \o <<NL>> \o b \o <<NL>> :
                a \in {LineInt0, LineInt9}, b \in {LineInt0, LineInt9} }
  /\ pline = <<>>
  /\ presult = Unset
  /\ twin = Unset

NextReconfig ==
  \/ \E n \in LineEnds(wire) : Callback(Poll(n, 0, 0))
  \/ Callback(Start)
  \/ Callback(Stop)
  \/ \E w \in WindowChoices : Callback(SetBuffer(w))
  \/ \E f \in FieldsOf(variant) : Callback(SetField(f))
  \/ \E d \in {1, 10} : Callback(SetDs(d))
  \/ \E m \in {200, 2000} : Callback(SetMaxPoints(m))

SpecReconfig == InitReconfig /\ [][NextReconfig]_vars

(***************************************************************************)
(* Cycle specification: more complete lines wait at the port than          *)
(* max_lines_per_tick, scaled to CycleCap, lets one cycle of               *)
(* pySerialPlot2.py process                                                *)
(***************************************************************************)
InitCycle ==
  /\ InitProgram
  /\ wire \in Streams(CycleCap + 1) \ Streams(CycleCap)
  /\ pline = <<>>
  /\ presult = Unset
  /\ twin = Unset

CycleEnv == [Env(0) EXCEPT !.max_lines_per_tick = CycleCap]

NextCycle ==
  \/ \E n \in LineEnds(wire) : Callback(PollWith(n, 0, CycleEnv))
  \/ Callback(Start)
  \/ Callback(Stop)

SpecCycle == InitCycle /\ [][NextCycle]_vars

(***************************************************************************)
(* Drawing specification: update_ui applied to buffers of given sizes      *)
(* under given spin-box values                                             *)
(***************************************************************************)
\* a running session that has buffered n samples, one per milli-second, the
\* i-th with value i; n lies around max render points and around its double
InitDraw ==
  /\ variant \in FramedVariants
  /\ app50 = Fresh50
  /\ max_points_cap = MaxPointsCap
  /\ serial = TRUE
  /\ rx_buf = <<>>
  /\ \E n \in {1, 2, 3, 199, 200, 201, 399, 400, 401, MaxSnapshot} :
       /\ x = [i \in 1..n |-> (i - 1) * 1000]
       /\ y = [i \in 1..n |-> IntAsReal(i)]
  /\ t0_us = <<0>>
  /\ buffer_seconds = 10
  /\ field = DefaultField(variant)
  /\ save_raw = FALSE
  /\ save_proc = FALSE
  /\ logging_raw = FALSE
  /\ raw_file = FALSE
  /\ raw_rows = <<>>
  /\ logging_proc = FALSE
  /\ proc_file = FALSE
  /\ proc_rows = <<>>
  /\ monitor_new_lines = <<>>
  /\ label_status = "Running"
  /\ pause = FALSE
  /\ ds \in {1, 2, 3, 10}
  /\ maxp \in {200, 201, 2000}
  /\ curve = << <<>>, <<>> >>
  /\ mono = 0
  /\ starts = 1
  /\ received = <<>>
  /\ emitted = <<>>
  /\ accepted = <<>>
  /\ closed = FALSE
  /\ wire = <<>>
  /\ pline = <<>>
  /\ presult = Unset
  /\ twin = Unset

NextDraw ==
  \/ \E flush \in BOOLEAN : Callback(UpdateUI(flush))
  \/ Callback(TogglePause)
  \/ \E d \in {1, 2, 3, 10} : Callback(SetDs(d))
  \/ \E m \in {200, 201, 2000} : Callback(SetMaxPoints(m))

SpecDraw == InitDraw /\ [][NextDraw]_vars

(***************************************************************************)
(* Properties                                                              *)
(***************************************************************************)
\* the ingestion state right after reset_session_state
FreshSelf ==
  [Self EXCEPT !.rx_buf = <<>>, !.x = <<>>, !.y = <<>>, !.t0_us = Unset,
               !.raw_rows = <<>>, !.proc_rows = <<>>,
               !.monitor_new_lines = <<>>, !.received = <<>>,
               !.emitted = <<>>, !.accepted = <<>>, !.now = 0]

\* the text handed to parse_line for a framed line
LineText(v, raw) ==
  IF v = "v2" THEN strip(decode(raw)) ELSE rstrip_cr(decode(raw))

RECURSIVE JoinLines(_)
JoinLines(ls) ==
  IF ls = <<>> THEN <<>> ELSE Head(ls) \o <<NL>> \o JoinLines(Tail(ls))

RECURSIVE JoinFields(_)
JoinFields(fs) ==
  IF Len(fs) = 1 THEN fs[1] ELSE Head(fs) \o Comma \o JoinFields(Tail(fs))

Parts(line) == split(strip(line), ",")

HeaderText(s) ==
  \/ startswith(s, <<"t", "_", "u", "s">>)
  \/ startswith(s, <<"t", ",">>)
  \/ startswith(s, <<"t", "i", "m", "e", "_", "u", "s">>)

HeaderLike(line) == HeaderText(lower(strip(line)))

\* a non-empty, non-header line with at least 5 comma-separated fields
FiveFields(line) ==
  strip(line) # <<>> /\ ~HeaderLike(line) /\ Len(Parts(line)) >= 5

\* no decimal point or exponent, an integer, magnitude above 20000
BigInteger(f) ==
  /\ \A i \in 1..Len(f) : f[i] \notin {".", "e", "E"}
  /\ ParseInt(f).ok
  /\ AbsInt(ParseInt(f).v) > 20000

ScaledShape(p) == BigInteger(p[4]) /\ BigInteger(p[5])

\* both lines of the parser specification have been through the handler
Ingested == wire = <<>>

\* the buffer and t0 are what the leading structured line alone leaves
OnlyLeadingSample == Len(accepted) = 1 /\ x = <<0>> /\ t0_us = <<0>>

DigitChar(d) ==
  CASE d = 0 -> "0" [] d = 1 -> "1" [] d = 2 -> "2" [] d = 3 -> "3"
    [] d = 4 -> "4" [] d = 5 -> "5" [] d = 6 -> "6" [] d = 7 -> "7"
    [] d = 8 -> "8" [] d = 9 -> "9"

RECURSIVE IntToDigits(_)
IntToDigits(n) ==
  IF n < 10 THEN <<DigitChar(n)>>
  ELSE IntToDigits(n \div 10) \o <<DigitChar(n % 10)>>

RECURSIVE PadZeros(_, _)
PadZeros(dg, len) == IF Len(dg) >= len THEN dg ELSE PadZeros(<<"0">> \o dg, len)

\* the decimal spelling of a real, always with a decimal point ("512.0", "1.65")
FormatDigits(neg, dg, k) ==
  (IF neg THEN <<"-">> ELSE <<>>)
    \o SubSeq(dg, 1, Len(dg) - k) \o <<".">>
    \o (IF k = 0 THEN <<"0">> ELSE SubSeq(dg, Len(dg) - k + 1, Len(dg)))

FormatReal(r) ==
  FormatDigits(r.n < 0, PadZeros(IntToDigits(AbsInt(r.n)), r.k + 1), r.k)

\* C1: the lines framed so far are those one poll over all bytes received so
\* far would frame, however the bytes were split into reads
C1_ChunkingIndependent ==
  (variant \in FramedVariants /\ received # <<>>)
    => emitted = poll_serial(FreshSelf, Env(0), received).emitted

\* C2: the framed lines, each followed by its terminator, and then the
\* carry-over bytes are exactly the bytes received: every terminated line is
\* emitted once, none is skipped, and the order is the arrival order
C2_EmittedOnceInOrder ==
  variant \in FramedVariants
    => /\ JoinLines(emitted) \o rx_buf = received
       /\ \A i \in 1..Len(emitted) : find(emitted[i], NL) < 0

C2_Witness ==
  /\ variant = "fast"
  /\ Len(emitted) >= 2
  /\ rx_buf # <<>>
  /\ label_status = "SerialError"

\* C3: whenever a handler has changed the buffer, the buffer holds at most
\* max_points_cap points and, from 2 points on, spans at most buffer_seconds
C3_BoundsAfterTrim ==
  [][ (x' # x \/ accepted' # accepted)
        => /\ Len(x') <= max_points_cap
           /\ Len(x') >= 2
                => x'[Len(x')] - x'[1] <= buffer_seconds' * 1000000 ]_vars

\* C4: the buffered timestamps are non-decreasing
C4_TimestampsNonDecreasing ==
  \A i \in 1..(Len(x) - 1) : x[i] <= x[i + 1]

\* a fallback scalar has its value among the accepted samples
ScalarIn(p) ==
  p.kind = "val" => \E j \in 1..Len(accepted) : accepted[j][2] = p.val

\* C5: every framed line that is a single real number has been appended to
\* the buffer, and the lines behind it did not stay in the carry-over buffer
C5_ScalarAccepted ==
  /\ \A i \in 1..Len(emitted) :
       ScalarIn(parse_line(variant, LineText(variant, emitted[i])))
  /\ variant \in FramedVariants => find(rx_buf, NL) < 0

\* r carries the values the claimed encoding of the fields p gives
EncodedAs(p, r) ==
  IF ScaledShape(p)
    THEN /\ r.avg = Norm(ParseInt(p[3]).v, 3)
         /\ r.v_adc = Norm(ParseInt(p[4]).v, 6)
         /\ r.v_sensor = Norm(ParseInt(p[5]).v, 6)
    ELSE /\ r.avg = ParseFloat(p[3]).v
         /\ r.v_adc = ParseFloat(p[4]).v
         /\ r.v_sensor = ParseFloat(p[5]).v

\* C6: a line of 5 or more fields is read with the scaled-integer encoding
\* exactly when fields 3 and 4 are both integers above 20000 in magnitude
\* without point or exponent, and with the float encoding otherwise
C6_EncodingChoice ==
  (variant = "fast" /\ presult # Unset /\ FiveFields(pline)
     /\ presult[1].kind = "struct")
    => EncodedAs(Parts(pline), presult[1])

C6_Witness ==
  /\ variant = "fast"
  /\ presult # Unset
  /\ presult[1].kind = "struct"
  /\ FiveFields(pline)
  /\ ScaledShape(Parts(pline))

SameSample(r, q) ==
  /\ q.kind = "struct"
  /\ q.t_us = r.t_us
  /\ q.raw = r.raw
  /\ q.avg = r.avg
  /\ q.v_adc = r.v_adc
  /\ q.v_sensor = r.v_sensor

\* the line with fields 2-4 replaced by field2/1000, field3/1e6, field4/1e6
FloatSpelling(p) ==
  JoinFields([i \in 1..Len(p) |->
    IF i = 3 THEN FormatReal(Norm(ParseInt(p[3]).v, 3))
    ELSE IF i \in {4, 5} THEN FormatReal(Norm(ParseInt(p[i]).v, 6))
    ELSE p[i]])

\* C7: an accepted scaled-integer line and its float spelling parse to the
\* same t_us, raw, avg, v_adc and v_sensor
C7_SameSample ==
  (variant = "fast" /\ presult # Unset /\ FiveFields(pline)
     /\ ScaledShape(Parts(pline)) /\ presult[1].kind = "struct")
    => SameSample(presult[1], parse_line("fast", FloatSpelling(Parts(pline))))

C7_Witness ==
  /\ variant = "fast"
  /\ presult # Unset
  /\ presult[1].kind = "struct"
  /\ pline = <<"1", "0", "0", "0", ",", "5", "1", "2", ",", "5", "1", "2", "0", "0", "0", ",", "1", "6", "5", "0", "0", "0", "0", ",", "2", "5", "0", "0", "0", "0", "0">>

\* every one of the first five fields parses as the type its encoding expects
ExpectedTypes(v, p) ==
  IF v = "downsampled" \/ (v = "fast" /\ ScaledShape(p))
    THEN \A i \in 1..5 : ParseInt(p[i]).ok
    ELSE ParseInt(p[1]).ok /\ \A i \in 2..5 : ParseFloat(p[i]).ok

\* C8: a line of 5 or more fields with a field that does not parse is
\* discarded, and feeding it through the session appends nothing
C8_BadFieldDiscards ==
  (presult # Unset /\ FiveFields(pline) /\ ~ExpectedTypes(variant, Parts(pline)))
    => /\ presult[1].kind = None
       /\ Ingested => OnlyLeadingSample

C8_Witness ==
  /\ presult # Unset
  /\ FiveFields(pline)
  /\ ~ExpectedTypes(variant, Parts(pline))
  /\ Ingested

\* C9: a line starting, case-insensitively, with a header prefix parses to
\* None and leaves the buffer and t0 as they were
C9_HeaderDiscarded ==
  (presult # Unset /\ HeaderLike(pline))
    => /\ presult[1].kind = None
       /\ Ingested => OnlyLeadingSample

C9_Witness ==
  /\ presult # Unset
  /\ HeaderLike(pline)
  /\ Len(Parts(pline)) >= 5
  /\ Ingested

FewFields(line) == Len(Parts(line)) < 5

\* the keys of a parse_line result r are those of exactly one shape
OneShape(r) ==
  \/ r = ParsedNone
  \/ r.kind = "val" /\ DOMAIN r = {"kind", "val"}
  \/ r.kind = "struct" /\ "t_us" \in DOMAIN r /\ ~("val" \in DOMAIN r)

\* C11: parse_line returns a structured sample, a fallback scalar or None; a
\* fallback scalar only for a line of fewer than 5 comma-separated fields, a
\* structured sample only for a line of at least 5
C11_OneShapePerLine ==
  presult # Unset =>
    /\ OneShape(presult[1])
    /\ presult[1].kind = "val" => FewFields(pline)
    /\ presult[1].kind = "struct" => ~FewFields(pline)

\* a line of 5 fields failed its structured reading in pySerialPlot2.py, came
\* out as None through the whole-line fallback, and was fed through a session
C11_Witness ==
  /\ variant = "v2"
  /\ pline = <<"1", ".", "5", ",", "5", "1", "2", ",", "x", ",",
               "1", ".", "6", "5", ",", "2", ".", "5", "0">>
  /\ presult = << ParsedNone >>
  /\ Ingested
  /\ Len(accepted) = 1

\* a <= b for decimals
LeDec(a, b) == a.n * (10 ^ b.k) <= b.n * (10 ^ a.k)

\* psi is what the ratiometric 10%..90% law gives for the sensor voltage v
PsiLaw(v, psi) ==
  IF LeDec(v, Norm(VS_VOLTS, 1)) THEN psi = IntAsReal(0)
  ELSE IF LeDec(Norm(9 * VS_VOLTS, 1), v) THEN psi = IntAsReal(FS_PSI)
  ELSE 8 * VS_VOLTS * psi.n * (10 ^ v.k)
         = FS_PSI * (10 * v.n - VS_VOLTS * (10 ^ v.k)) * (10 ^ psi.k)

FailedStart == label_status' \in StartFailures /\ label_status' # label_status

\* C17: a start that fails for want of a port or because the port cannot be
\* opened leaves the session Idle: no port handle, no sink opened, buffer, t0
\* and carry-over bytes as before; only the status text changes
C17_FailedStartStaysIdle ==
  [][ FailedStart =>
        /\ ~serial'
        /\ ~raw_file' /\ ~proc_file'
        /\ UNCHANGED << x, y, t0_us, rx_buf, raw_rows, proc_rows >>
        /\ UNCHANGED << wire, monitor_new_lines, curve, mono, starts, received,
                        emitted, accepted, logging_raw, logging_proc >>
        /\ UNCHANGED ConfigVars ]_vars

\* a start failed after a stopped session that left samples, t0 and carry-over
\* bytes behind
C17_Witness ==
  /\ label_status \in StartFailures
  /\ ~serial
  /\ x # <<>>
  /\ t0_us # Unset
  /\ rx_buf # <<>>

\* the sinks that are open, and the sinks the checkboxes ask for, as
\* <<raw, processed>>
SinksOpen == << raw_file, proc_file >>
SinksEnabled ==
  CASE variant = "fast" -> << save_raw, save_proc >>
    [] variant = "downsampled" -> << save_raw, FALSE >>
    [] variant = "v2" -> << FALSE, save_raw >>

\* C18: right after every successful start t0 is unset, the buffer and the
\* carry-over bytes are empty, exactly the sinks enabled at that moment are
\* open, and the session is Running
C18_StartResets ==
  [][ (~serial /\ serial') =>
        /\ t0_us' = Unset
        /\ x' = <<>> /\ y' = <<>>
        /\ rx_buf' = <<>>
        /\ SinksOpen' = SinksEnabled
        /\ label_status' = "Running" ]_vars

\* a second session has just started with the raw sink switched off, after a
\* first one that read all but the last byte of the stream and wrote raw rows
C18_Witness ==
  /\ variant = "fast"
  /\ serial
  /\ starts = 2
  /\ label_status = "Running"
  /\ Len(wire) = 1
  /\ x = <<>>
  /\ ~save_raw /\ ~raw_file /\ proc_file
  /\ raw_rows # <<>>

\* stop_plotting ran: the window was closed, or the port was released
StopStep == closed' # closed \/ (serial /\ ~serial')

\* C19 as stated: stop closes the port and every open sink, and a stop when
\* Idle changes no state at all
C19_StopWhenIdleChangesNothing ==
  [][ StopStep =>
        /\ ~serial' /\ ~raw_file' /\ ~proc_file'
        /\ ~serial => UNCHANGED << StateVars, ConfigVars, SinkHandles >> ]_vars

\* C19: stop closes the port and every open sink; a stop when Idle changes
\* nothing but the status text, which becomes "Stopped", so that a second
\* stop in a row changes nothing
C19_StopIdempotent ==
  [][ StopStep =>
        /\ ~serial' /\ ~raw_file' /\ ~proc_file'
        /\ label_status' = "Stopped"
        /\ ~serial =>
             UNCHANGED << wire, rx_buf, x, y, t0_us, raw_rows, proc_rows,
                          monitor_new_lines, curve, mono, starts, received,
                          emitted, accepted, ConfigVars, SinkHandles >> ]_vars

\* the window was closed, and with it stop_plotting called, before any start
C19_Witness ==
  /\ closed
  /\ starts = 0
  /\ ~serial
  /\ label_status = "Stopped"

StrideFor(n, d, m) ==
  IF n > m THEN (IF d >= n \div m THEN d ELSE n \div m) ELSE d

\* out holds the elements of snap at indices 0, step, 2*step, ...; the first
\* element is there, the last one exactly when (n-1) is a multiple of step
EveryNth(out, snap, step) ==
  /\ Len(out) = ((Len(snap) - 1) \div step) + 1
  /\ \A i \in 1..Len(out) : out[i] = snap[(i - 1) * step + 1]
  /\ out[1] = snap[1]
  /\ (out[Len(out)] = snap[Len(snap)]) <=> ((Len(snap) - 1) % step = 0)

\* C13: the series drawn by update_ui for n points holds the elements at
\* indices 0, step, 2*step, ... with step = max(ds, n // maxp) when n > maxp
\* and step = ds otherwise; the first point is drawn, the last one only when
\* (n-1) is a multiple of step
C13_DecimatedSeries ==
  [][ curve' # curve =>
        /\ EveryNth(curve'[1], x, StrideFor(Len(x), ds, maxp))
        /\ EveryNth(curve'[2], y, StrideFor(Len(x), ds, maxp)) ]_vars

\* 400 points drawn with stride 2 = 400 // 200: 200 points, the last one drawn
\* is the last but one of the buffer
C13_Witness ==
  /\ Len(x) = 400
  /\ ds = 1
  /\ maxp = 200
  /\ Len(curve[1]) = 200
  /\ curve[1][1] = x[1]
  /\ curve[1][200] = x[399]

\* the elements of a occur in b, each later than the one before it (b holds
\* no element twice: timestamps and values of a snapshot here are distinct)
EmbedsInOrder(a, b) ==
  /\ \A i \in 1..Len(a) : \E j \in 1..Len(b) : b[j] = a[i]
  /\ \A i \in 1..(Len(a) - 1) :
       \E j \in 1..Len(b) :
         b[j] = a[i] /\ \E k \in (j + 1)..Len(b) : b[k] = a[i + 1]

\* C14: the decimated series is an order-preserving subsequence of the
\* snapshot and has no more than max(max_points, n) elements
C14_SubsequenceOfSnapshot ==
  [][ curve' # curve =>
        /\ EmbedsInOrder(curve'[1], x)
        /\ EmbedsInOrder(curve'[2], y)
        /\ Len(curve'[1]) <= Max(maxp, Len(x))
        /\ Len(curve'[2]) <= Max(maxp, Len(x)) ]_vars

\* 401 points drawn with stride 2: 201 points, first and last included
C14_Witness ==
  /\ Len(x) = 401
  /\ ds = 2
  /\ maxp = 200
  /\ Len(curve[1]) = 201
  /\ curve[2][201] = y[401]

\* what ingestion owns: buffer, t0, carry-over bytes, session, sinks
IngestionState ==
  << x, y, t0_us, rx_buf, serial, raw_file, proc_file, raw_rows, proc_rows >>

\* a step that reads no bytes, starts or stops nothing and moves no pause
\* checkbox: a refresh cycle
RefreshStep ==
  /\ wire' = wire
  /\ serial' = serial
  /\ pause' = pause
  /\ twin'.pause = twin.pause

\* C15: a refresh (update_ui) leaves buffer, t0, carry-over bytes, session
\* state and both sinks unchanged; the buffer changes only in a poll or in a
\* session start
C15_RefreshReadsOnly ==
  [][ /\ RefreshStep => UNCHANGED IngestionState
      /\ (x' # x \/ y' # y) => (wire' # wire \/ (~serial /\ serial')) ]_vars

\* a refresh drew a non-empty buffer between two polls of a logging session
C15_Witness ==
  /\ serial
  /\ wire # <<>>
  /\ x # <<>>
  /\ curve[1] # <<>>
  /\ label_status = "RunningPoints"
  /\ raw_rows # <<>>

\* C16: two runs fed the same bytes that differ only in when the pause flag
\* is set hold the same buffer, the same raw rows and as many processed rows
C16_PauseDoesNotReachIngestion ==
  /\ twin.self.x = x
  /\ twin.self.y = y
  /\ twin.self.t0_us = t0_us
  /\ twin.self.rx_buf = rx_buf
  /\ twin.self.raw_rows = raw_rows
  /\ Len(twin.self.proc_rows) = Len(proc_rows)

\* all bytes are ingested; one run was paused while the other drew, so the
\* two curves differ
C16_Witness ==
  /\ variant = "fast"
  /\ wire = <<>>
  /\ Len(x) = 2
  /\ Len(proc_rows) = 3
  /\ pause # twin.pause
  /\ curve # twin.self.curve

\* C21: in the Idle state a stop leads to, the time-series buffer is empty
\* and t0 is unset
C21_StopClearsBuffer ==
  [][ (serial /\ ~serial') => (x' = <<>> /\ y' = <<>> /\ t0_us' = Unset) ]_vars

IsPrefix(a, b) == Len(a) <= Len(b) /\ SubSeq(b, 1, Len(a)) = a

\* C22: every framed line, with its terminator, lies in the bytes received
\* in the running session, in order from their first byte on, so bytes behind
\* the last terminator and bytes of an earlier session are in no framed
\* line; nothing is shown, buffered or logged that was not framed
C22_UnterminatedNeverEmitted ==
  variant \in FramedVariants
    => /\ IsPrefix(JoinLines(emitted), received)
       /\ Len(monitor_new_lines) <= Len(emitted)
       /\ Len(accepted) <= Len(emitted)
       /\ raw_file => Len(raw_rows) <= Len(emitted)
       /\ proc_file => Len(proc_rows) <= 1 + Len(emitted)

\* a second session has framed a line and holds an unterminated digit
C22_Witness ==
  /\ starts = 2
  /\ serial
  /\ wire = <<>>
  /\ Len(emitted) >= 1
  /\ rx_buf = <<"7">>

\* line terminators in a run of bytes
Terminators(b) == Cardinality(LineEnds(b))

\* C23: while the raw sink is open and raw logging is on, the raw rows, each
\* followed by a terminator, and then the carry-over bytes are the bytes
\* received in the session: one row per terminator consumed, in arrival
\* order, whatever parsing made of the line
C23_RawRowPerLine ==
  (variant \in FramedVariants /\ logging_raw /\ raw_file)
    => /\ JoinLines(raw_rows) \o decode(rx_buf) = decode(received)
       /\ Len(raw_rows) = Terminators(received) - Terminators(rx_buf)

\* pySerialPlot_fast.py logged a junk line, an empty line and the scalar line
\* whose processing raised, and buffered nothing
C23_Witness ==
  /\ variant = "fast"
  /\ logging_raw /\ raw_file
  /\ raw_rows = << <<"x", CR>>, <<>>, <<"7">> >>
  /\ accepted = <<>>
  /\ label_status = "SerialError"

\* the processed sink takes rows: pySerialPlot_fast.py with processed
\* logging on, pySerialPlot2.py with its csv writer
ProcActive ==
  \/ variant = "fast" /\ logging_proc /\ proc_file
  \/ variant = "v2" /\ proc_file

\* the rows of the structured lines among ls, in order
RECURSIVE StructRows(_, _)
StructRows(v, ls) ==
  IF ls = <<>> THEN <<>>
  ELSE LET p == parse_line(v, LineText(v, Head(ls)))
       IN (IF p.kind # "struct" THEN <<>>
           ELSE IF v = "fast" THEN <<ProcRow(p)>> ELSE <<CsvRow(p)>>)
            \o StructRows(v, Tail(ls))

\* C24: while the processed sink takes rows it holds the header written when
\* it was opened and then one row per structured line read in the session, in
\* arrival order; scalar and rejected lines have no row
C24_ProcRowPerStructSample ==
  ProcActive
    => proc_rows = <<IF variant = "fast" THEN ProcHeader ELSE CsvHeader>>
                     \o StructRows(variant, emitted)

\* pySerialPlot_fast.py read a structured and a scalar line: header and one
\* row
C24_Witness ==
  /\ variant = "fast"
  /\ ProcActive
  /\ Len(emitted) = 2
  /\ Len(proc_rows) = 2
  /\ label_status = "SerialError"

\* the rows among rs whose position is not in fails
RECURSIVE RowsExcept(_, _, _)
RowsExcept(rs, i, fails) ==
  IF i > Len(rs) THEN <<>>
  ELSE (IF i \in fails THEN <<>> ELSE <<rs[i]>>) \o RowsExcept(rs, i + 1, fails)

\* the rows of the structured lines among ls, from line number i on, whose
\* line number is not in fails
RECURSIVE StructRowsExcept(_, _, _, _)
StructRowsExcept(v, ls, i, fails) ==
  IF i > Len(ls) THEN <<>>
  ELSE (IF i \in fails THEN <<>> ELSE StructRows(v, <<ls[i]>>))
         \o StructRowsExcept(v, ls, i + 1, fails)

\* C25: with the writes of some lines failing, buffer, t0, carry-over bytes,
\* framed lines and status are those of the run whose writes all succeed;
\* each sink holds that run's rows less the failed ones, so later rows are
\* written and no failed row is written afterwards; and a poll leaves the
\* session Running and the sink handles open
C25_FailedWriteKeepsIngesting ==
  /\ [](serial =>
          /\ x = twin.self.x /\ y = twin.self.y
          /\ t0_us = twin.self.t0_us
          /\ rx_buf = twin.self.rx_buf
          /\ emitted = twin.self.emitted
          /\ accepted = twin.self.accepted
          /\ label_status = twin.self.label_status
          /\ variant \in FramedVariants
               => raw_rows = RowsExcept(twin.self.raw_rows, 1, twin.rawfail)
          /\ ProcActive
               => proc_rows = << twin.self.proc_rows[1] >>
                    \o StructRowsExcept(variant, emitted, 1, twin.procfail))
  /\ [][ wire' # wire => UNCHANGED << serial, SinkHandles >> ]_vars

\* pySerialPlot_fast.py ingested three structured lines while the raw and the
\* processed write of the first line failed
C25_Witness ==
  /\ variant = "fast"
  /\ serial /\ raw_file /\ proc_file
  /\ twin.rawfail = {1} /\ twin.procfail = {1}
  /\ Len(accepted) = 3
  /\ Len(raw_rows) = 2 /\ Len(twin.self.raw_rows) = 3
  /\ Len(proc_rows) = 3 /\ Len(twin.self.proc_rows) = 4

\* the line is rejected: parse_line returns None, or pySerialPlot50.py finds
\* no list of numbers in it
Rejected(v, raw) ==
  IF v = "v50" THEN Raises50(raw) \/ Values50(strip(raw)) = <<>>
  ELSE parse_line(v, LineText(v, raw)).kind = None

\* the lines framed by this step
NewLines == SubSeq(emitted', Len(emitted) + 1, Len(emitted'))

\* the samples the lines ls hold for variant v
RECURSIVE SamplesIn(_, _)
SamplesIn(v, ls) ==
  IF ls = <<>> THEN 0
  ELSE (IF Rejected(v, Head(ls)) THEN 0
        ELSE IF v = "v50" THEN Len(Values50(strip(Head(ls)))) ELSE 1)
         + SamplesIn(v, Tail(ls))

\* C26: a poll that frames rejected lines only leaves buffer, t0, processed
\* sink, session and status text as they were; and rejected lines do not
\* keep the lines behind them from being ingested: during a run every
\* complete line read has been framed and every sample framed is accepted
C26_RejectedLineDiscarded ==
  /\ [][ (wire' # wire /\ \A i \in 1..Len(NewLines) :
                            Rejected(variant, NewLines[i]))
           => UNCHANGED << x, y, t0_us, proc_rows, proc_file, serial, closed,
                           label_status >> ]_vars
  /\ [](serial => /\ find(rx_buf, NL) < 0
                  /\ Len(accepted) = SamplesIn(variant, emitted))

\* a widget of the buffer window, the tracked field or the decimation moved
ConfigStep ==
  \/ buffer_seconds' # buffer_seconds
  \/ field' # field
  \/ ds' # ds
  \/ maxp' # maxp

\* the handler's result if the structured line l is what the next poll reads
AfterNextLine(l) ==
  IF variant = "v2"
    THEN update_plot(Self', Env(0)', l \o <<NL>>)
    ELSE poll_serial(Self', Env(0)', l \o <<NL>>)

\* the buffer of st spans at most w seconds
SpanWithin(st, w) ==
  Len(st.x) >= 2 => st.x[Len(st.x)] - st.x[1] <= w * MicrosPerSecond

\* C27: moving the window, field or decimation widgets during a run leaves
\* the port and the sinks open and the buffer, t0 and carry-over bytes as
\* they are, and whatever structured line is read next after a change of the
\* window, the append-and-trim it causes leaves the buffer within the new
\* window
C27_ReconfigureWhileRunning ==
  [][ (serial /\ ConfigStep)
        => /\ serial'
           /\ UNCHANGED << SinkHandles, x, y, t0_us, rx_buf, label_status >>
           /\ buffer_seconds' # buffer_seconds
                => \A l \in {LineInt0, LineInt9} :
                     SpanWithin(AfterNextLine(l), buffer_seconds') ]_vars

\* the bytes the step takes off the wire
Consumed == SubSeq(wire, 1, Len(wire) - Len(wire'))

\* the handler's state once the line ending at byte n of the bytes it reads
\* has been processed and the next line has not
MidState(n) ==
  IF variant = "v2"
    THEN ReadLines([Self EXCEPT !.received = @ \o SubSeq(Consumed, 1, n)],
                   Env(0), SubSeq(Consumed, 1, n))
    ELSE poll_serial(Self, Env(0), SubSeq(Consumed, 1, n))

\* C28: after each line of a poll that has put a sample into the buffer, and
\* before the next line is processed, the buffer holds at most max_points_cap
\* points and spans at most the window
C28_BoundsAfterEveryInsertion ==
  [][ wire' # wire
        => \A n \in LineEnds(Consumed) :
             Len(MidState(n).accepted) > Len(accepted)
               => /\ Len(MidState(n).x) <= max_points_cap
                  /\ SpanWithin(MidState(n), buffer_seconds) ]_vars

\* the buffer is the last Len(x) accepted samples, in arrival order
BufferIsSuffix(xs, ys, acc) ==
  /\ Len(xs) = Len(ys)
  /\ Len(xs) <= Len(acc)
  /\ \A i \in 1..Len(xs) :
       << xs[i], ys[i] >> = acc[Len(acc) - Len(xs) + i]

\* the last sample a step that accepted one sample has evicted is no older
\* than the window: it left for the count cap
EvictedForCap ==
  /\ Len(accepted') = Len(accepted) + 1
  /\ Len(x') <= Len(x)
  /\ ~Older(accepted'[Len(accepted') - Len(x')][1],
            TMin(accepted'[Len(accepted')][1], buffer_seconds))

\* C29: the buffer is a contiguous suffix, in arrival order, of the samples
\* accepted since the last start, and a step that evicts for the count cap
\* leaves exactly max_points_cap points
C29_EvictionFromHeadOnly ==
  /\ [](BufferIsSuffix(x, y, accepted))
  /\ [][ EvictedForCap => Len(x') = max_points_cap ]_vars

C29_Witness ==
  /\ Len(accepted) = max_points_cap + 1
  /\ Len(x) = max_points_cap
  /\ ~Older(accepted[1][1],
            TMin(accepted[Len(accepted)][1], buffer_seconds))
  /\ accepted[1][1] # accepted[2][1]
  /\ x[1] = accepted[2][1]

(***************************************************************************)
(* Feed specification: structured lines whose t_us advances by a constant  *)
(* spacing, read one or two lines to a poll, under the default 10 s window *)
(***************************************************************************)
\* spacings in micro-seconds: 25 to the window with times that are not
\* binary fractions, 20 to the window with times that are, one that does not
\* divide the window, and one whose steady length lies above the cap
FeedSpacings == {400000, 500000, 600000, 300000}

RECURSIVE FeedFrom(_, _, _)
FeedFrom(t_us, d, n) ==
  IF n = 0 THEN <<>>
  ELSE IntToDigits(t_us) \o StructTail \o <<NL>> \o FeedFrom(t_us + d, d, n - 1)

InitFeed ==
  /\ variant \in Variants
  /\ max_points_cap = FeedCap
  /\ InitSelf
  /\ wire \in { FeedFrom(0, d, FeedLines) : d \in FeedSpacings }
  /\ pline = <<>>
  /\ presult = Unset
  /\ twin = Unset

NextFeed ==
  \/ \E n \in { i \in LineEnds(wire) :
                  Cardinality(LineEnds(SubSeq(wire, 1, i))) <= 2 } :
       Callback(Poll(n, 0, 0))
  \/ Callback(Start)
  \/ Callback(Stop)

SpecFeed == InitFeed /\ [][NextFeed]_vars

\* spacing of the samples accepted in this session
Spacing == accepted[2][1] - accepted[1][1]

\* the session's feed has run for longer than the window
FedBeyondWindow ==
  /\ Len(accepted) >= 2
  /\ accepted[Len(accepted)][1] - accepted[1][1]
       > buffer_seconds * MicrosPerSecond

\* floor(W / d) + 1
SteadyLength == (buffer_seconds * MicrosPerSecond) \div Spacing + 1

\* C30 as stated: once the feed has run for longer than the window the buffer
\* holds floor(W/d)+1 points, and it never holds more than max_points_cap
C30_SteadyLength ==
  /\ Len(x) <= max_points_cap
  /\ FedBeyondWindow => Len(x) = SteadyLength

Least(a, b) == IF a <= b THEN a ELSE b

\* the sample exactly W old exists and its time is not a binary fraction
RoundedBoundary ==
  /\ (buffer_seconds * MicrosPerSecond) % Spacing = 0
  /\ Spacing % 15625 # 0

\* C30, amended: once the feed has run for longer than the window the buffer
\* holds the smaller of floor(W/d)+1 and max_points_cap points, or one point
\* less than floor(W/d)+1 where W is a whole multiple of d and the times are
\* rounded; it never holds more than max_points_cap
C30_SteadyLengthRounded ==
  /\ Len(x) <= max_points_cap
  /\ FedBeyondWindow
       => \/ Len(x) = Least(SteadyLength, max_points_cap)
          \/ /\ RoundedBoundary
             /\ Len(x) = Least(SteadyLength - 1, max_points_cap)

C30_Witness ==
  /\ variant = "fast"
  /\ FedBeyondWindow
  /\ RoundedBoundary
  /\ SteadyLength <= max_points_cap
  /\ Len(x) = SteadyLength - 1
  /\ x[1] = accepted[Len(accepted)][1] - (SteadyLength - 2) * Spacing

\* the kind of the first line among ls that parse_line does not reject
RECURSIVE FirstKind(_, _)
FirstKind(v, ls) ==
  IF ls = <<>> THEN None
  ELSE IF Rejected(v, Head(ls)) THEN FirstKind(v, Tail(ls))
  ELSE parse_line(v, LineText(v, Head(ls))).kind

\* t0 is set exactly when a sample was accepted since the last start, it is
\* set in a step that accepts a sample, and once set only a start changes it
AnchoredOnce ==
  /\ [](t0_us = Unset <=> accepted = <<>>)
  /\ [](x # <<>> => t0_us # Unset)
  /\ [][ t0_us' # t0_us
           => IF t0_us = Unset THEN Len(accepted') > 0
              ELSE t0_us' = Unset /\ ~serial /\ serial' ]_vars

\* C31 as stated: t0 is anchored once per session, and the first accepted
\* sample of a session has t_seconds = 0
C31_T0AnchoredOnce ==
  /\ AnchoredOnce
  /\ [](accepted # <<>> => accepted[1][1] = 0)

\* C31, amended: t0 is anchored once per session; the first accepted sample
\* has t_seconds = 0 if it is a structured sample, and t_seconds >= 0 if it
\* is a fallback scalar, for which the host clock is read a second time
C31_T0AnchoredOnceClockReadTwice ==
  /\ AnchoredOnce
  /\ [](accepted # <<>>
          => /\ accepted[1][1] >= 0
             /\ (variant = "fast" \/ FirstKind(variant, emitted) # "val")
                  => accepted[1][1] = 0)

C31_Witness ==
  /\ variant = "downsampled"
  /\ starts = 2
  /\ Len(accepted) >= 2
  /\ accepted[1][1] > 0
  /\ t0_us # Unset
  /\ FirstKind(variant, emitted) = "val"

\* C32: a redraw of n buffered points draws fewer than 2 * max_points points
\* when n > max_points and at most n points otherwise
C32_DrawnPointsBounded ==
  [][ curve' # curve =>
        /\ Len(curve'[1]) = Len(curve'[2])
        /\ IF Len(x) > Max(200, maxp)
             THEN Len(curve'[1]) < 2 * Max(200, maxp)
             ELSE Len(curve'[1]) <= Len(x) ]_vars

\* more than max_points points are drawn, one short of twice as many
C32_Witness ==
  /\ Len(x) > Max(200, maxp)
  /\ Len(curve[1]) > Max(200, maxp)
  /\ Len(curve[1]) = 2 * Max(200, maxp) - 1

\* C33: one poll cycle processes at most the per-cycle maximum number of
\* lines, whatever number of complete lines is waiting
C33_LinesPerCycleCapped ==
  [][ wire' # wire => Len(emitted') - Len(emitted) <= CycleCap ]_vars

\* the cap as pySerialPlot2.py keeps it: the cycle stops after CycleCap lines and
\* the rest waits at the port
CappedInV2 ==
  [][ wire' # wire /\ variant = "v2" =>
        Len(emitted') - Len(emitted) <= CycleCap ]_vars

LeftForNextCycle ==
  variant = "v2" /\ Len(emitted) = CycleCap /\ wire # <<>> /\ starts = 1

\* the raw sink takes a row for every line framed
RawActive == variant \in FramedVariants /\ logging_raw /\ raw_file

\* C34: every row of the raw sink is the line with its trailing carriage
\* returns stripped, the text handed to the parser, so no row ends with a
\* carriage return
C34_RawRowsStripped ==
  RawActive
    => /\ Len(raw_rows) = Len(emitted)
       /\ \A i \in 1..Len(raw_rows) :
            /\ raw_rows[i] = LineText(variant, emitted[i])
            /\ raw_rows[i] = <<>> \/ raw_rows[i][Len(raw_rows[i])] # CR

\* C34 as the code has it: every row of the raw sink is the line as received,
\* its carriage returns kept, and the text handed to the parser is the row
\* with the trailing carriage returns stripped
C34_RawRowsAsReceived ==
  RawActive
    => /\ Len(raw_rows) = Len(emitted)
       /\ \A i \in 1..Len(raw_rows) :
            /\ raw_rows[i] = decode(emitted[i])
            /\ rstrip_cr(raw_rows[i]) = LineText(variant, emitted[i])
            /\ (emitted[i] # <<>> /\ emitted[i][Len(emitted[i])] = CR)
                 => raw_rows[i][Len(raw_rows[i])] = CR

\* a line ending CR LF was logged with its carriage return and parsed
\* without it
C34_Witness ==
  /\ RawActive
  /\ Len(raw_rows) >= 1
  /\ raw_rows[1] # <<>>
  /\ raw_rows[1][Len(raw_rows[1])] = CR
  /\ Len(accepted) >= 1
  /\ parse_line(variant, LineText(variant, emitted[1])) # [kind |-> None]

\* C35: after every poll cycle of a running session the carry-over buffer
\* holds no line terminator: each complete line was framed in the cycle that
\* received its terminator
C35_NoTerminatorCarriedOver ==
  [][ (variant \in FramedVariants /\ serial /\ wire' # wire)
        => find(rx_buf', NL) < 0 ]_vars

\* the same with pySerialPlot_fast.py left out
NoTerminatorCarriedOverDownsampled ==
  [][ (variant = "downsampled" /\ serial /\ wire' # wire)
        => find(rx_buf', NL) < 0 ]_vars

\* the sinks whose checkbox is checked are open
ConfiguredSinksOpen ==
  /\ (variant \in FramedVariants /\ save_raw) => raw_file
  /\ (variant = "fast" /\ save_proc) => proc_file
  /\ (variant = "v2" /\ save_raw) => proc_file

\* C36: a start leaves the session either running with every configured sink
\* open or idle with nothing open, also when a sink file fails to open after
\* the port was opened
C36_StartAllOrNothing ==
  /\ [][ (~serial /\ starts' # starts /\ ~closed')
           => IF serial'
                THEN label_status' = "Running" /\ ConfiguredSinksOpen'
                ELSE ~raw_file' /\ ~proc_file' ]_vars
  /\ [](~serial => ~raw_file /\ ~proc_file)

\* what does hold: without a port handle no sink is open, and a start whose
\* steps all succeed opens every configured sink
StartedOrNothingOpen ==
  /\ [][ (~serial /\ serial' /\ label_status' = "Running")
           => ConfiguredSinksOpen' ]_vars
  /\ [](~serial => ~raw_file /\ ~proc_file)

\* the port is open, the raw sink too, the processed sink is not, and the
\* status still reads as before the click
HalfStarted ==
  /\ variant = "fast" /\ serial /\ raw_file /\ ~proc_file /\ save_proc
  /\ label_status = "Waiting"

\* the line update_plot of pySerialPlot50.py read in this step
LineRead == SubSeq(wire, 1, Len(wire) - Len(wire'))

Tick50 == variant = "v50" /\ serial /\ wire' # wire

\* C37: in pySerialPlot50.py update_plot never calls csv_writer.writerow on a
\* writer whose file stop_plotting has closed
C37_WriterFileOpen ==
  [][ Tick50 => ~update_plot50(Self, Env(0), LineRead).closed_write ]_vars

\* the values of the line read in this step
ValuesRead == Values50(strip(LineRead))

\* the samples the recording of the line read adds to the history
SamplesRead == [i \in 1..Len(ValuesRead) |-> <<mono', ValuesRead[i].v>>]

\* the value at i reaches the start threshold, a later one the stop threshold
StartsAt(i) == AtMost(app50.trigger_start, ValuesRead[i].v)

StopsAt(j) == AtMost(ValuesRead[j].v, app50.trigger_stop)

Waiting == app50.standby_mode /\ ~app50.standby_started

\* the line read carries the session over the stop trigger
StopTriggered ==
  \/ app50.standby_mode /\ app50.standby_started
       /\ \E j \in 1..Len(ValuesRead) : StopsAt(j)
  \/ Waiting /\ \E i \in 1..Len(ValuesRead) :
                  StartsAt(i) /\ \E j \in (i + 1)..Len(ValuesRead) : StopsAt(j)

\* C38: in standby mode of pySerialPlot50.py nothing is recorded before a
\* value reaches the start threshold; the line with that value is recorded;
\* the line with the first later value at or below the stop threshold is
\* recorded, standby mode is left, port and csv file are closed
C38_StandbyGatesRecording ==
  [][ (Tick50 /\ app50.standby_mode /\ ~closed')
        => /\ (Waiting /\ \A i \in 1..Len(ValuesRead) : ~StartsAt(i))
                => /\ UNCHANGED << x, y, accepted, proc_rows, app50 >>
                   /\ serial'
           /\ (Waiting /\ \E i \in 1..Len(ValuesRead) : StartsAt(i))
                => /\ accepted' = accepted \o SamplesRead
                   /\ x' # <<>> /\ x'[Len(x')] = mono'
                   /\ save_raw => /\ proc_file' = ~StopTriggered
                                  /\ Len(proc_rows') = 1 + Len(ValuesRead)
                   /\ StopTriggered \/ app50'.standby_started
           /\ StopTriggered
                => /\ accepted' = accepted \o SamplesRead
                   /\ ~app50'.standby_mode /\ ~app50'.standby_started
                   /\ ~serial' /\ ~proc_file'
                   /\ label_status' = "Stopped"
           /\ (app50.standby_started /\ ~StopTriggered)
                => /\ accepted' = accepted \o SamplesRead
                   /\ serial' /\ app50'.standby_mode
                   /\ app50'.standby_started ]_vars

\* a value below the start threshold was passed over, the value at the
\* threshold started the recording, and the value at the stop threshold ended
\* the session with both lines in the csv file
C38_Witness ==
  /\ variant = "v50"
  /\ Len(emitted) = 3
  /\ Len(accepted) = 2
  /\ Len(proc_rows) = 3
  /\ ~serial /\ ~proc_file
  /\ ~app50.standby_mode /\ ~app50.checked
  /\ app50.trigger_start = IntAsReal(7)
  /\ accepted[1][2] = IntAsReal(7)
  /\ accepted[2][2] = IntAsReal(3)
  /\ label_status = "Stopped"

\* C39: the trim that follows an append never evicts the sample just
\* appended: the buffer ends with it, and x and y are of equal length
C39_AppendedSampleKept ==
  /\ [](Len(x) = Len(y))
  /\ [][ Len(accepted') > Len(accepted)
           => /\ x' # <<>>
              /\ x'[Len(x')] = accepted'[Len(accepted')][1]
              /\ y'[Len(y')] = accepted'[Len(accepted')][2] ]_vars

\* the window evicted all but the sample just appended
C39_Witness ==
  /\ Len(accepted) >= 2
  /\ Len(x) = 1
  /\ x[1] = accepted[Len(accepted)][1]
  /\ x[1] - accepted[1][1] > buffer_seconds * MicrosPerSecond

\* |v| > 0.02 for a decimal v
AboveTwentyMilli(v) == 100 * AbsInt(v.n) > 2 * (10 ^ v.k)

\* an integer spelled without decimal point or exponent
IntegerOnly(f) ==
  /\ \A i \in 1..Len(f) : f[i] \notin {".", "e", "E"}
  /\ ParseInt(f).ok

\* the first five fields are integers and the micro-volt field i is at most
\* 20000 in magnitude
SmallMicrovolts(p, i) ==
  /\ \A j \in 1..5 : IntegerOnly(p[j])
  /\ AbsInt(ParseInt(p[i]).v) <= 20000

\* C40: a sample parse_line of pySerialPlot_fast.py read in the scaled-integer
\* encoding has |v_adc| > 0.02 and |v_sensor| > 0.02; an integer-only line
\* with field 3 or 4 at most 20000 in magnitude is read in the float encoding,
\* its integers taken as volts
C40_ScaledAboveThreshold ==
  (variant = "fast" /\ presult # Unset /\ FiveFields(pline)
     /\ presult[1].kind = "struct")
    => /\ presult[1].enc = "int"
            => /\ AboveTwentyMilli(presult[1].v_adc)
               /\ AboveTwentyMilli(presult[1].v_sensor)
       /\ (SmallMicrovolts(Parts(pline), 4) \/ SmallMicrovolts(Parts(pline), 5))
            => /\ presult[1].enc = "float"
               /\ presult[1].v_adc = Norm(ParseInt(Parts(pline)[4]).v, 0)
               /\ presult[1].v_sensor = Norm(ParseInt(Parts(pline)[5]).v, 0)

\* 20000 micro-volts beside 2500000: the line was read as 20000 V and
\* 2500000 V
C40_Witness ==
  /\ variant = "fast"
  /\ presult # Unset
  /\ presult[1].kind = "struct"
  /\ presult[1].enc = "float"
  /\ SmallMicrovolts(Parts(pline), 4)
  /\ ~SmallMicrovolts(Parts(pline), 5)
  /\ presult[1].v_adc = IntAsReal(20000)
  /\ presult[1].v_sensor = IntAsReal(2500000)

====
